---- MODULE Spec2Model ----
(***************************************************************************)
(* Budgeting App back end (src/back_end/server.js): the SQLite store of    *)
(* categories, transactions, budget periods and per-period category        *)
(* budgets, the REST handlers that change it, and the budget summary       *)
(* computed from it.  A handler is one step, except POST /api/periods in   *)
(* SpecPostPeriod, which is split at its db callbacks: pending[k] is the   *)
(* position of the POST /api/periods of connection k.  client is the state *)
(* of the React component App (src/client/src/App.jsx) with the fetches it *)
(* has in flight, once the page is open.                                   *)
(*                                                                         *)
(* Money is modelled in whole currency units (Int); a percentage is the    *)
(* exact rational (spent / budget_limit) * 100 kept as a reduced fraction. *)
(* A DATETIME is a tick count, TicksPerDay ticks to the calendar day, and  *)
(* SQLite's DATE() maps it to its day.  A request's date is a day.         *)
(* db.js never issues PRAGMA foreign_keys = ON, so SQLite enforces neither *)
(* the REFERENCES clauses nor ON DELETE CASCADE; NOT NULL, UNIQUE and      *)
(* CHECK constraints are enforced.                                         *)
(***************************************************************************)
EXTENDS Integers, FiniteSets, Sequences, TLC

VARIABLES categories, transactions, budget_periods, period_category_budgets,
          sqlite_sequence, resp, pending, client

vars == <<categories, transactions, budget_periods, period_category_budgets,
          sqlite_sequence, resp, pending, client>>

store == <<categories, transactions, budget_periods, period_category_budgets,
           sqlite_sequence>>

-----------------------------------------------------------------------------
(* Bounds of the model *)

MaxTransactions == 2
MaxSummaryPeriods == 1
MaxPeriods == 3
MaxCategories == 3
MaxClients == 2
MaxPostedPeriods == 2
MaxChanges == 2
MaxListed == 1

(* SQL NULL / a JS undefined request field, in a numeric and in a text position *)
NULL == -999

NULLTEXT == "<null>"

(* a numeric field that the body of PUT /api/transactions/:id leaves out (JS
   undefined), where NULL is a JS null the body carries *)
UNDEFINED == -998

TicksPerDay == 2

Days == 1..4

(* the connections that may each have one POST /api/periods in flight *)
Clients == 1..MaxClients

-----------------------------------------------------------------------------
(* Helpers of SQL and JS semantics *)

(* SQLite DATE(x) of a DATETIME: its calendar day *)
DATE(ts) == ts \div TicksPerDay

Abs(n) == IF n < 0 THEN 0 - n ELSE n

RECURSIVE GCD(_, _)
GCD(a, b) == IF b = 0 THEN a ELSE GCD(b, a % b)

(* the rational n / d, d > 0, as a reduced fraction *)
Ratio(n, d) ==
    LET g == GCD(Abs(n), d)
    IN  [num |-> n \div g, den |-> d \div g]

(* SQL LOWER() / JS toLowerCase() on the names of the model *)
LOWER(name) ==
    CASE name = "Food" -> "food"
      [] name = "Income" -> "income"
      [] name = "Rent" -> "rent"
      [] OTHER -> name

(* JS String.prototype.trim() on the names of the model *)
TRIM(name) ==
    CASE name = " " -> ""
      [] name = " Rent " -> "Rent"
      [] OTHER -> name

LongName == "Household maintenance, repairs and improvement works"

(* JS name.length *)
LENGTH(name) ==
    CASE name = "" -> 0
      [] name = " " -> 1
      [] name = LongName -> 52
      [] OTHER -> 6

(* SQL COALESCE(a, b) *)
COALESCE(a, b) == IF a # NULL THEN a ELSE b

(* SumCase summing every joined amount, whatever its type *)
RECURSIVE SumCase_AnyType(_, _)
SumCase_AnyType(rows, type) ==
    IF rows = {} THEN 0
    ELSE LET r == CHOOSE x \in rows : TRUE
         IN  (IF r.t.id # NULL THEN r.t.amount ELSE 0)
             + SumCase_AnyType(rows \ {r}, type)

(* SUM(CASE WHEN t.transaction_type = type THEN t.amount ELSE 0 END) over joined
   rows; the row of a category without a joined transaction has a NULL type *)
RECURSIVE SumCase(_, _)
SumCase(rows, type) ==
    IF rows = {} THEN 0
    ELSE LET r == CHOOSE x \in rows : TRUE
         IN  (IF r.t.transaction_type = type THEN r.t.amount ELSE 0)
             + SumCase(rows \ {r}, type)

-----------------------------------------------------------------------------
(* Rows of the store *)

(* the all-NULL row a LEFT JOIN supplies for a category without a match *)
NullTransaction ==
    [id |-> NULL, description |-> NULLTEXT, amount |-> NULL, category_id |-> NULL,
     transaction_type |-> NULLTEXT, date |-> NULL, updated_at |-> NULL]

NullPeriodCategoryBudget ==
    [period_id |-> NULL, category_id |-> NULL, budget_limit |-> NULL]

(* INSERT OR IGNORE INTO categories: the seed rows of schema.sql that the
   summary distinguishes, a budgeted category and the "Income" marker *)
SeedCategories ==
    {[id |-> 1, name |-> "Food", budget_limit |-> 200, is_active |-> 1],
     [id |-> 2, name |-> "Income", budget_limit |-> 0, is_active |-> 1]}

-----------------------------------------------------------------------------
(* GET /api/budget-summary *)

(* PeriodBranchRows joining only the transactions dated within the selected
   period's own range *)
PeriodBranchRows_WithinPeriod(q) ==
    {r \in [c : categories,
            pcb : period_category_budgets \cup {NullPeriodCategoryBudget},
            t : transactions \cup {NullTransaction}] :
        /\ IF r.pcb = NullPeriodCategoryBudget
           THEN ~ \E o \in period_category_budgets :
                      r.c.id = o.category_id /\ o.period_id = q.period_id
           ELSE r.c.id = r.pcb.category_id /\ r.pcb.period_id = q.period_id
        /\ LET on(t) == /\ r.c.id = t.category_id
                        /\ (q.start_date = NULL \/ DATE(t.date) >= q.start_date)
                        /\ (q.end_date = NULL \/ DATE(t.date) <= q.end_date)
                        /\ \A p \in budget_periods :
                               p.id = q.period_id =>
                                   /\ DATE(t.date) >= p.start_date
                                   /\ DATE(t.date) <= p.end_date
           IN  IF r.t = NullTransaction
               THEN ~ \E t \in transactions : on(t)
               ELSE on(r.t)
        /\ r.c.name # "Income" /\ r.c.is_active = 1}

(* period branch: categories c LEFT JOIN period_category_budgets pcb LEFT JOIN
   transactions t, the date window inside the JOIN ... ON *)
PeriodBranchRows(q) ==
    {r \in [c : categories,
            pcb : period_category_budgets \cup {NullPeriodCategoryBudget},
            t : transactions \cup {NullTransaction}] :
        /\ IF r.pcb = NullPeriodCategoryBudget
           THEN ~ \E o \in period_category_budgets :
                      r.c.id = o.category_id /\ o.period_id = q.period_id
           ELSE r.c.id = r.pcb.category_id /\ r.pcb.period_id = q.period_id
        /\ LET on(t) == /\ r.c.id = t.category_id
                        /\ (q.start_date = NULL \/ DATE(t.date) >= q.start_date)
                        /\ (q.end_date = NULL \/ DATE(t.date) <= q.end_date)
           IN  IF r.t = NullTransaction
               THEN ~ \E t \in transactions : on(t)
               ELSE on(r.t)
        /\ r.c.name # "Income" /\ r.c.is_active = 1}

(* DefaultBranchRows without the WHERE conditions on the category *)
DefaultBranchRows_AllCategories(q) ==
    {r \in [c : categories,
            pcb : {NullPeriodCategoryBudget},
            t : transactions \cup {NullTransaction}] :
        /\ IF r.t = NullTransaction
           THEN ~ \E t \in transactions : r.c.id = t.category_id
           ELSE r.c.id = r.t.category_id
        /\ (q.start_date # NULL =>
               (r.t.id = NULL \/ DATE(r.t.date) >= q.start_date))
        /\ (q.end_date # NULL =>
               (r.t.id = NULL \/ DATE(r.t.date) <= q.end_date))}

(* default branch: categories c LEFT JOIN transactions t, the date window in
   the WHERE clause *)
DefaultBranchRows(q) ==
    {r \in [c : categories,
            pcb : {NullPeriodCategoryBudget},
            t : transactions \cup {NullTransaction}] :
        /\ IF r.t = NullTransaction
           THEN ~ \E t \in transactions : r.c.id = t.category_id
           ELSE r.c.id = r.t.category_id
        /\ r.c.name # "Income" /\ r.c.is_active = 1
        /\ (q.start_date # NULL =>
               (r.t.id = NULL \/ DATE(r.t.date) >= q.start_date))
        /\ (q.end_date # NULL =>
               (r.t.id = NULL \/ DATE(r.t.date) <= q.end_date))}

(* GROUP BY c.id, c.name, pcb.budget_limit, c.budget_limit *)
GroupKey(r) == <<r.c.id, r.c.name, r.pcb.budget_limit, r.c.budget_limit>>

(* SummaryRow with remaining clamped at 0 *)
SummaryRow_Clamped(name, budget_limit, spent, income) ==
    [name |-> name,
     budget_limit |-> budget_limit,
     spent |-> spent,
     income |-> income,
     remaining |-> IF budget_limit - spent < 0 THEN 0 ELSE budget_limit - spent,
     percentage |-> IF budget_limit > 0
                    THEN Ratio(spent * 100, budget_limit)
                    ELSE Ratio(0, 1)]

(* SummaryRow with the percentage left as the fraction spent / budget_limit *)
SummaryRow_Fraction(name, budget_limit, spent, income) ==
    [name |-> name,
     budget_limit |-> budget_limit,
     spent |-> spent,
     income |-> income,
     remaining |-> budget_limit - spent,
     percentage |-> IF budget_limit > 0
                    THEN Ratio(spent, budget_limit)
                    ELSE Ratio(0, 1)]

(* rows.map(row => ({...row, remaining, percentage})) *)
SummaryRow(name, budget_limit, spent, income) ==
    [name |-> name,
     budget_limit |-> budget_limit,
     spent |-> spent,
     income |-> income,
     remaining |-> budget_limit - spent,
     percentage |-> IF budget_limit > 0
                    THEN Ratio(spent * 100, budget_limit)
                    ELSE Ratio(0, 1)]

(* Aggregate with COALESCE(c.budget_limit, pcb.budget_limit) *)
Aggregate_DefaultFirst(rows) ==
    {LET group == {r \in rows : GroupKey(r) = k}
     IN  SummaryRow(k[2], COALESCE(k[4], k[3]),
                    COALESCE(SumCase(group, "expense"), 0),
                    COALESCE(SumCase(group, "income"), 0)) :
     k \in {GroupKey(r) : r \in rows}}

(* one result row per group of the joined rows *)
Aggregate(rows) ==
    {LET group == {r \in rows : GroupKey(r) = k}
     IN  SummaryRow(k[2], COALESCE(k[3], k[4]),
                    COALESCE(SumCase(group, "expense"), 0),
                    COALESCE(SumCase(group, "income"), 0)) :
     k \in {GroupKey(r) : r \in rows}}

BudgetSummary(q) ==
    IF q.period_id # NULL
    THEN Aggregate(PeriodBranchRows(q))
    ELSE Aggregate(DefaultBranchRows(q))

-----------------------------------------------------------------------------
(* Transactions *)

(* POST /api/transactions: date and updated_at default to CURRENT_TIMESTAMP *)
PostTransaction(description, amount, category_id, transaction_type, now) ==
    IF description = NULLTEXT \/ description = "" \/ amount = NULL \/ amount = 0
       \/ transaction_type = NULLTEXT \/ transaction_type = ""
    THEN /\ resp' = [op |-> "POST /transactions", status |-> 400]
         /\ UNCHANGED store
    ELSE IF transaction_type \notin {"income", "expense"}
    THEN (* CHECK(transaction_type IN ('income', 'expense')) *)
         /\ resp' = [op |-> "POST /transactions", status |-> 500]
         /\ UNCHANGED store
    ELSE LET id == sqlite_sequence.transactions + 1
         IN  /\ transactions' = transactions \cup
                    {[id |-> id, description |-> description, amount |-> amount,
                      category_id |-> category_id,
                      transaction_type |-> transaction_type,
                      date |-> now, updated_at |-> now]}
             /\ sqlite_sequence' = [sqlite_sequence EXCEPT !.transactions = id]
             /\ resp' = [op |-> "POST /transactions", status |-> 200, id |-> id]
             /\ UNCHANGED <<categories, budget_periods, period_category_budgets>>

(* PUT /api/transactions/:id; NULLTEXT and UNDEFINED are fields the body
   leaves out, NULL is a null it carries; updated_at is set to
   CURRENT_TIMESTAMP *)
PutTransaction(id, description, amount, category_id, transaction_type, date, now) ==
    LET rejected(status) ==
            /\ resp' = [op |-> "PUT /transactions", status |-> status, id |-> id]
            /\ UNCHANGED store
    IN  IF /\ description = NULLTEXT \/ description = ""
           /\ amount \in {UNDEFINED, NULL, 0}
           /\ category_id \in {UNDEFINED, NULL, 0}
           /\ transaction_type = NULLTEXT \/ transaction_type = ""
           /\ date \in {UNDEFINED, NULL}
        THEN rejected(400)
        ELSE IF description # NULLTEXT /\ LENGTH(TRIM(description)) = 0
        THEN rejected(400)
        ELSE IF amount # UNDEFINED /\ (amount = NULL \/ amount <= 0)
        THEN (* parseFloat(null) is NaN *)
             rejected(400)
        ELSE IF /\ transaction_type # NULLTEXT
                /\ transaction_type \notin {"income", "expense"}
        THEN rejected(400)
        ELSE IF ~ \E t \in transactions : t.id = id
        THEN rejected(404)
        ELSE LET transaction == CHOOSE t \in transactions : t.id = id
                 updated == [transaction EXCEPT
                     !.description = IF description # NULLTEXT
                                     THEN TRIM(description) ELSE @,
                     !.amount = IF amount # UNDEFINED THEN amount ELSE @,
                     !.category_id = IF category_id # UNDEFINED
                                     THEN category_id ELSE @,
                     !.transaction_type = IF transaction_type # NULLTEXT
                                          THEN transaction_type ELSE @,
                     !.date = IF date # UNDEFINED THEN date ELSE @,
                     !.updated_at = now]
             IN  /\ transactions' = (transactions \ {transaction}) \cup {updated}
                 /\ resp' = [op |-> "PUT /transactions", status |-> 200, id |-> id]
                 /\ UNCHANGED <<categories, budget_periods,
                                period_category_budgets, sqlite_sequence>>

(* DELETE /api/transactions/:id: answers 200 with the number of deleted rows *)
DeleteTransaction(id) ==
    /\ transactions' = {t \in transactions : t.id # id}
    /\ resp' = [op |-> "DELETE /transactions", status |-> 200, id |-> id,
                deletedRows |-> Cardinality({t \in transactions : t.id = id})]
    /\ UNCHANGED <<categories, budget_periods, period_category_budgets,
                   sqlite_sequence>>

-----------------------------------------------------------------------------
(* Categories *)

(* POST /api/categories comparing names as stored, without LOWER() *)
PostCategory_CaseSensitive(name, budget_limit) ==
    LET limit == IF budget_limit # NULL THEN budget_limit ELSE 0
        id == sqlite_sequence.categories + 1
    IN  IF \/ name = NULLTEXT \/ name = "" \/ LENGTH(TRIM(name)) = 0
           \/ LENGTH(name) > 50
           \/ limit < 0
           \/ \E c \in categories : c.name = TRIM(name)
        THEN /\ resp' = [op |-> "POST /categories", status |-> 400]
             /\ UNCHANGED store
        ELSE /\ categories' = categories \cup
                    {[id |-> id, name |-> TRIM(name), budget_limit |-> limit,
                      is_active |-> 1]}
             /\ sqlite_sequence' = [sqlite_sequence EXCEPT !.categories = id]
             /\ resp' = [op |-> "POST /categories", status |-> 201, id |-> id]
             /\ UNCHANGED <<transactions, budget_periods, period_category_budgets>>

(* POST /api/categories *)
PostCategory(name, budget_limit) ==
    LET limit == IF budget_limit # NULL THEN budget_limit ELSE 0
        id == sqlite_sequence.categories + 1
    IN  IF \/ name = NULLTEXT \/ name = "" \/ LENGTH(TRIM(name)) = 0
           \/ LENGTH(name) > 50
           \/ limit < 0
           \/ \E c \in categories : LOWER(c.name) = LOWER(TRIM(name))
        THEN /\ resp' = [op |-> "POST /categories", status |-> 400]
             /\ UNCHANGED store
        ELSE /\ categories' = categories \cup
                    {[id |-> id, name |-> TRIM(name), budget_limit |-> limit,
                      is_active |-> 1]}
             /\ sqlite_sequence' = [sqlite_sequence EXCEPT !.categories = id]
             /\ resp' = [op |-> "POST /categories", status |-> 201, id |-> id]
             /\ UNCHANGED <<transactions, budget_periods, period_category_budgets>>

(* PUT /api/categories/:id; NULL is a field the body leaves out *)
PutCategory(id, name, budget_limit) ==
    IF \/ name = NULLTEXT /\ budget_limit = NULL
       \/ name # NULLTEXT /\ (LENGTH(TRIM(name)) = 0 \/ LENGTH(name) > 50)
       \/ budget_limit # NULL /\ budget_limit < 0
    THEN /\ resp' = [op |-> "PUT /categories", status |-> 400]
         /\ UNCHANGED store
    ELSE IF ~ \E c \in categories : c.id = id
    THEN /\ resp' = [op |-> "PUT /categories", status |-> 404]
         /\ UNCHANGED store
    ELSE LET category == CHOOSE c \in categories : c.id = id
             updated == [category EXCEPT
                 !.name = IF name # NULLTEXT THEN TRIM(name) ELSE @,
                 !.budget_limit = IF budget_limit # NULL THEN budget_limit ELSE @]
         IN  IF /\ name # NULLTEXT
                /\ LOWER(TRIM(name)) # LOWER(category.name)
                /\ \E c \in categories :
                       LOWER(c.name) = LOWER(TRIM(name)) /\ c.id # id
             THEN /\ resp' = [op |-> "PUT /categories", status |-> 400]
                  /\ UNCHANGED store
             ELSE IF \E c \in categories : c.id # id /\ c.name = updated.name
             THEN (* name TEXT NOT NULL UNIQUE *)
                  /\ resp' = [op |-> "PUT /categories", status |-> 500]
                  /\ UNCHANGED store
             ELSE /\ categories' = (categories \ {category}) \cup {updated}
                  /\ resp' = [op |-> "PUT /categories", status |-> 200, id |-> id]
                  /\ UNCHANGED <<transactions, budget_periods,
                                 period_category_budgets, sqlite_sequence>>

(* DELETE /api/categories/:id removing every category that no transaction
   references, whatever hard_delete says *)
DeleteCategory_HardByDefault(id, hardDelete) ==
    IF ~ \E c \in categories : c.id = id
    THEN /\ resp' = [op |-> "DELETE /categories", status |-> 404]
         /\ UNCHANGED store
    ELSE LET category == CHOOSE c \in categories : c.id = id
             count == Cardinality({t \in transactions : t.category_id = id})
             hasTransactions == count > 0
         IN  IF hasTransactions /\ hardDelete
             THEN /\ resp' = [op |-> "DELETE /categories", status |-> 400,
                              id |-> id, transaction_count |-> count]
                  /\ UNCHANGED store
             ELSE IF ~ hasTransactions
             THEN /\ categories' = categories \ {category}
                  /\ resp' = [op |-> "DELETE /categories", status |-> 200,
                              id |-> id, deleted |-> TRUE]
                  /\ UNCHANGED <<transactions, budget_periods,
                                 period_category_budgets, sqlite_sequence>>
             ELSE /\ categories' = (categories \ {category}) \cup
                         {[category EXCEPT !.is_active = 0]}
                  /\ resp' = [op |-> "DELETE /categories", status |-> 200,
                              id |-> id, deleted |-> FALSE]
                  /\ UNCHANGED <<transactions, budget_periods,
                                 period_category_budgets, sqlite_sequence>>

(* DELETE /api/categories/:id answering the conflict of hard_delete and
   deactivating the category all the same *)
DeleteCategory_ConflictDeactivates(id, hardDelete) ==
    IF ~ \E c \in categories : c.id = id
    THEN /\ resp' = [op |-> "DELETE /categories", status |-> 404]
         /\ UNCHANGED store
    ELSE LET category == CHOOSE c \in categories : c.id = id
             count == Cardinality({t \in transactions : t.category_id = id})
             hasTransactions == count > 0
         IN  IF hardDelete /\ ~ hasTransactions
             THEN /\ categories' = categories \ {category}
                  /\ resp' = [op |-> "DELETE /categories", status |-> 200,
                              id |-> id, deleted |-> TRUE]
                  /\ UNCHANGED <<transactions, budget_periods,
                                 period_category_budgets, sqlite_sequence>>
             ELSE /\ categories' = (categories \ {category}) \cup
                         {[category EXCEPT !.is_active = 0]}
                  /\ resp' = IF hasTransactions /\ hardDelete
                             THEN [op |-> "DELETE /categories", status |-> 400,
                                   id |-> id, transaction_count |-> count]
                             ELSE [op |-> "DELETE /categories", status |-> 200,
                                   id |-> id, deleted |-> FALSE]
                  /\ UNCHANGED <<transactions, budget_periods,
                                 period_category_budgets, sqlite_sequence>>

(* DELETE /api/categories/:id?hard_delete= *)
DeleteCategory(id, hardDelete) ==
    IF ~ \E c \in categories : c.id = id
    THEN /\ resp' = [op |-> "DELETE /categories", status |-> 404]
         /\ UNCHANGED store
    ELSE LET category == CHOOSE c \in categories : c.id = id
             count == Cardinality({t \in transactions : t.category_id = id})
             hasTransactions == count > 0
         IN  IF hasTransactions /\ hardDelete
             THEN /\ resp' = [op |-> "DELETE /categories", status |-> 400,
                              id |-> id, transaction_count |-> count]
                  /\ UNCHANGED store
             ELSE IF hardDelete /\ ~ hasTransactions
             THEN /\ categories' = categories \ {category}
                  /\ resp' = [op |-> "DELETE /categories", status |-> 200,
                              id |-> id, deleted |-> TRUE]
                  /\ UNCHANGED <<transactions, budget_periods,
                                 period_category_budgets, sqlite_sequence>>
             ELSE /\ categories' = (categories \ {category}) \cup
                         {[category EXCEPT !.is_active = 0]}
                  /\ resp' = [op |-> "DELETE /categories", status |-> 200,
                              id |-> id, deleted |-> FALSE]
                  /\ UNCHANGED <<transactions, budget_periods,
                                 period_category_budgets, sqlite_sequence>>

-----------------------------------------------------------------------------
(* Budget periods *)

(* Overlap without the clause for an existing period inside the new range *)
Overlap_BoundariesOnly(start_date, end_date) ==
    {p \in budget_periods :
        /\ \/ p.start_date <= start_date /\ start_date <= p.end_date
           \/ p.start_date <= end_date /\ end_date <= p.end_date
        /\ p.is_active = 1}

(* the overlap query of POST /api/periods: either boundary of the new range
   BETWEEN an active period's bounds, or that period's start BETWEEN the new
   bounds *)
Overlap(start_date, end_date) ==
    {p \in budget_periods :
        /\ \/ p.start_date <= start_date /\ start_date <= p.end_date
           \/ p.start_date <= end_date /\ end_date <= p.end_date
           \/ start_date <= p.start_date /\ p.start_date <= end_date
        /\ p.is_active = 1}

(* CopyBudgets without WHERE is_active = 1 *)
CopyBudgets_AllCategories(periodId) ==
    {[period_id |-> periodId, category_id |-> c.id, budget_limit |-> c.budget_limit] :
        c \in categories}

(* INSERT INTO period_category_budgets SELECT ?, id, budget_limit FROM
   categories WHERE is_active = 1 *)
CopyBudgets(periodId) ==
    {[period_id |-> periodId, category_id |-> c.id, budget_limit |-> c.budget_limit] :
        c \in {x \in categories : x.is_active = 1}}

(* POST /api/periods *)
PostPeriod(period_type, start_date, end_date) ==
    LET rejected(error) ==
            /\ resp' = [op |-> "POST /periods", status |-> 400, error |-> error,
                        start_date |-> start_date, end_date |-> end_date]
            /\ UNCHANGED store
        periodId == sqlite_sequence.budget_periods + 1
    IN  IF \/ period_type = NULLTEXT \/ period_type = ""
           \/ start_date = NULL \/ end_date = NULL
        THEN rejected("required")
        ELSE IF period_type \notin {"weekly", "monthly", "yearly"}
        THEN rejected("period_type")
        ELSE IF end_date < start_date
        THEN rejected("end_date")
        ELSE IF Overlap(start_date, end_date) # {}
        THEN rejected("overlap")
        ELSE /\ budget_periods' = budget_periods \cup
                    {[id |-> periodId, period_type |-> period_type,
                      start_date |-> start_date, end_date |-> end_date,
                      is_active |-> 1]}
             /\ sqlite_sequence' = [sqlite_sequence EXCEPT !.budget_periods = periodId]
             /\ period_category_budgets' =
                    period_category_budgets \cup CopyBudgets(periodId)
             /\ resp' = [op |-> "POST /periods", status |-> 201, id |-> periodId,
                         start_date |-> start_date, end_date |-> end_date]
             /\ UNCHANGED <<categories, transactions>>

(* the WHERE clause of GET /api/periods/current without AND is_active = 1 *)
CurrentPeriods_AnyActivity(today) ==
    {p \in budget_periods : p.start_date <= today /\ today <= p.end_date}

(* WHERE DATE('now') BETWEEN DATE(start_date) AND DATE(end_date)
   AND is_active = 1 *)
CurrentPeriods(today) ==
    {p \in budget_periods :
        /\ p.start_date <= today /\ today <= p.end_date
        /\ p.is_active = 1}

(* GET /api/periods/current, today being DATE('now'): the first row of ORDER
   BY start_date DESC LIMIT 1, rows of equal start_date coming in either
   order.  body is the set of the row, the empty set for null. *)
GetCurrentPeriod(today) ==
    /\ \/ /\ CurrentPeriods(today) = {}
          /\ resp' = [op |-> "GET /periods/current", status |-> 200,
                      today |-> today, body |-> {}]
       \/ \E row \in CurrentPeriods(today) :
              /\ \A p \in CurrentPeriods(today) : p.start_date <= row.start_date
              /\ resp' = [op |-> "GET /periods/current", status |-> 200,
                          today |-> today, body |-> {row}]
    /\ UNCHANGED store

(* POST /api/periods at its db callbacks, for the request of connection k.
   First callback, of db.get(overlapQuery): the body was validated when the
   request arrived; an overlap is answered 400, otherwise insertPeriod is
   queued. *)
PostPeriodOverlapQuery(k, period_type, start_date, end_date) ==
    LET rejected(error) ==
            /\ resp' = [op |-> "POST /periods", status |-> 400, error |-> error,
                        start_date |-> start_date, end_date |-> end_date]
            /\ UNCHANGED <<store, pending>>
    IN  /\ pending[k].pc = "idle"
        /\ IF \/ period_type = NULLTEXT \/ period_type = ""
              \/ start_date = NULL \/ end_date = NULL
           THEN rejected("required")
           ELSE IF period_type \notin {"weekly", "monthly", "yearly"}
           THEN rejected("period_type")
           ELSE IF end_date < start_date
           THEN rejected("end_date")
           ELSE IF Overlap(start_date, end_date) # {}
           THEN rejected("overlap")
           ELSE /\ pending' = [pending EXCEPT ![k] =
                       [pc |-> "insertPeriod", period_type |-> period_type,
                        start_date |-> start_date, end_date |-> end_date]]
                /\ resp' = [op |-> "db.get overlapQuery", status |-> 0]
                /\ UNCHANGED store

(* db.run(insertPeriod) and its callback: the row is stored, periodId is
   this.lastID, copyBudgets is queued.  defaults records the rows copyBudgets
   would insert at this moment; no statement reads it. *)
PostPeriodInsertPeriod(k) ==
    LET periodId == sqlite_sequence.budget_periods + 1
    IN  /\ pending[k].pc = "insertPeriod"
        /\ budget_periods' = budget_periods \cup
               {[id |-> periodId, period_type |-> pending[k].period_type,
                 start_date |-> pending[k].start_date,
                 end_date |-> pending[k].end_date, is_active |-> 1]}
        /\ sqlite_sequence' = [sqlite_sequence EXCEPT !.budget_periods = periodId]
        /\ pending' = [pending EXCEPT ![k] =
               [pc |-> "copyBudgets", periodId |-> periodId,
                start_date |-> pending[k].start_date,
                end_date |-> pending[k].end_date,
                defaults |-> CopyBudgets(periodId)]]
        /\ resp' = [op |-> "db.run insertPeriod", status |-> 0]
        /\ UNCHANGED <<categories, transactions, period_category_budgets>>

(* db.run(copyBudgets) and its callback: err is the statement failing, which
   is answered 500 with the period row left as it is; otherwise the SELECT of
   the period is queued *)
PostPeriodCopyBudgets(k, err) ==
    /\ pending[k].pc = "copyBudgets"
    /\ IF err
       THEN /\ resp' = [op |-> "POST /periods", status |-> 500,
                        id |-> pending[k].periodId,
                        start_date |-> pending[k].start_date,
                        end_date |-> pending[k].end_date]
            /\ pending' = [pending EXCEPT ![k] = [pc |-> "idle"]]
            /\ UNCHANGED store
       ELSE /\ period_category_budgets' =
                   period_category_budgets \cup CopyBudgets(pending[k].periodId)
            /\ pending' = [pending EXCEPT ![k].pc = "respond"]
            /\ resp' = [op |-> "db.run copyBudgets", status |-> 0]
            /\ UNCHANGED <<categories, transactions, budget_periods,
                           sqlite_sequence>>

(* the callback of the final db.get: 201 with the period *)
PostPeriodRespond(k) ==
    /\ pending[k].pc = "respond"
    /\ resp' = [op |-> "POST /periods", status |-> 201,
                id |-> pending[k].periodId,
                start_date |-> pending[k].start_date,
                end_date |-> pending[k].end_date]
    /\ pending' = [pending EXCEPT ![k] = [pc |-> "idle"]]
    /\ UNCHANGED store

(* GET /api/periods/:id *)
GetPeriod(id) ==
    /\ resp' = IF \E p \in budget_periods : p.id = id
               THEN [op |-> "GET /periods", status |-> 200, id |-> id,
                     body |-> CHOOSE p \in budget_periods : p.id = id]
               ELSE [op |-> "GET /periods", status |-> 404, id |-> id]
    /\ UNCHANGED store

(* PUT /api/periods/:id on a table without CONSTRAINT check_dates *)
PutPeriod_NoCheckDates(id, period_type, start_date, end_date, is_active) ==
    IF ~ \E p \in budget_periods : p.id = id
    THEN /\ resp' = [op |-> "PUT /periods", status |-> 404]
         /\ UNCHANGED store
    ELSE IF \/ period_type # NULLTEXT
               /\ period_type \notin {"weekly", "monthly", "yearly"}
            \/ /\ period_type = NULLTEXT /\ start_date = NULL
               /\ end_date = NULL /\ is_active = NULL
    THEN /\ resp' = [op |-> "PUT /periods", status |-> 400]
         /\ UNCHANGED store
    ELSE LET period == CHOOSE p \in budget_periods : p.id = id
             updated == [period EXCEPT
                 !.period_type = IF period_type # NULLTEXT THEN period_type ELSE @,
                 !.start_date = IF start_date # NULL THEN start_date ELSE @,
                 !.end_date = IF end_date # NULL THEN end_date ELSE @,
                 !.is_active = IF is_active # NULL
                               THEN (IF is_active # 0 THEN 1 ELSE 0) ELSE @]
         IN  /\ budget_periods' = (budget_periods \ {period}) \cup {updated}
             /\ resp' = [op |-> "PUT /periods", status |-> 200, id |-> id]
             /\ UNCHANGED <<categories, transactions,
                            period_category_budgets, sqlite_sequence>>

(* PUT /api/periods/:id; NULL is a field the body leaves out *)
PutPeriod(id, period_type, start_date, end_date, is_active) ==
    IF ~ \E p \in budget_periods : p.id = id
    THEN /\ resp' = [op |-> "PUT /periods", status |-> 404]
         /\ UNCHANGED store
    ELSE IF \/ period_type # NULLTEXT
               /\ period_type \notin {"weekly", "monthly", "yearly"}
            \/ /\ period_type = NULLTEXT /\ start_date = NULL
               /\ end_date = NULL /\ is_active = NULL
    THEN /\ resp' = [op |-> "PUT /periods", status |-> 400]
         /\ UNCHANGED store
    ELSE LET period == CHOOSE p \in budget_periods : p.id = id
             updated == [period EXCEPT
                 !.period_type = IF period_type # NULLTEXT THEN period_type ELSE @,
                 !.start_date = IF start_date # NULL THEN start_date ELSE @,
                 !.end_date = IF end_date # NULL THEN end_date ELSE @,
                 !.is_active = IF is_active # NULL
                               THEN (IF is_active # 0 THEN 1 ELSE 0) ELSE @]
         IN  IF updated.end_date < updated.start_date
             THEN (* CONSTRAINT check_dates CHECK(end_date >= start_date) *)
                  /\ resp' = [op |-> "PUT /periods", status |-> 500]
                  /\ UNCHANGED store
             ELSE /\ budget_periods' = (budget_periods \ {period}) \cup {updated}
                  /\ resp' = [op |-> "PUT /periods", status |-> 200, id |-> id]
                  /\ UNCHANGED <<categories, transactions,
                                 period_category_budgets, sqlite_sequence>>

(* DELETE /api/periods/:id: foreign keys are not enforced, the period's
   period_category_budgets rows stay *)
DeletePeriod(id) ==
    IF ~ \E p \in budget_periods : p.id = id
    THEN /\ resp' = [op |-> "DELETE /periods", status |-> 404]
         /\ UNCHANGED store
    ELSE /\ budget_periods' = {p \in budget_periods : p.id # id}
         /\ resp' = [op |-> "DELETE /periods", status |-> 200, id |-> id]
         /\ UNCHANGED <<categories, transactions, period_category_budgets,
                        sqlite_sequence>>

(* the rows of GET /api/periods/:id/budgets: pcb JOIN categories c *)
PeriodBudgetRows(id) ==
    {[category_id |-> r.pcb.category_id, category_name |-> r.c.name,
      budget_limit |-> r.pcb.budget_limit] :
        r \in {x \in [pcb : period_category_budgets, c : categories] :
                  x.pcb.category_id = x.c.id /\ x.pcb.period_id = id}}

(* GET /api/periods/:id/budgets *)
GetPeriodBudgets(id) ==
    /\ resp' = [op |-> "GET /periods/budgets", status |-> 200, id |-> id,
                body |-> PeriodBudgetRows(id)]
    /\ UNCHANGED store

(* the UPDATE statements of one request, each applied to the rows of every
   period *)
RECURSIVE UpdateBudgets_AnyPeriod(_, _, _)
UpdateBudgets_AnyPeriod(rows, id, budgets) ==
    IF budgets = <<>> THEN rows
    ELSE LET budget == Head(budgets)
         IN  UpdateBudgets_AnyPeriod(
                 {IF r.category_id = budget.category_id
                  THEN [r EXCEPT !.budget_limit = budget.budget_limit]
                  ELSE r : r \in rows},
                 id, Tail(budgets))

(* the UPDATE period_category_budgets statements of one request, in order *)
RECURSIVE UpdateBudgets(_, _, _)
UpdateBudgets(rows, id, budgets) ==
    IF budgets = <<>> THEN rows
    ELSE LET budget == Head(budgets)
         IN  UpdateBudgets(
                 {IF r.period_id = id /\ r.category_id = budget.category_id
                  THEN [r EXCEPT !.budget_limit = budget.budget_limit]
                  ELSE r : r \in rows},
                 id, Tail(budgets))

(* PUT /api/periods/:id/budgets *)
PutPeriodBudgets(id, budgets) ==
    IF budgets = <<>>
    THEN /\ resp' = [op |-> "PUT /periods/budgets", status |-> 400]
         /\ UNCHANGED store
    ELSE IF ~ \E p \in budget_periods : p.id = id
    THEN /\ resp' = [op |-> "PUT /periods/budgets", status |-> 404]
         /\ UNCHANGED store
    ELSE /\ period_category_budgets' =
                UpdateBudgets(period_category_budgets, id, budgets)
         /\ resp' = [op |-> "PUT /periods/budgets", status |-> 200, id |-> id,
                     budgets |-> budgets]
         /\ UNCHANGED <<categories, transactions, budget_periods, sqlite_sequence>>

(* the entries from index i on whose db.run does not call back with err *)
RECURSIVE Resolved(_, _, _)
Resolved(budgets, errors, i) ==
    IF i > Len(budgets) THEN <<>>
    ELSE (IF i \in errors THEN <<>> ELSE <<budgets[i]>>)
             \o Resolved(budgets, errors, i + 1)

(* PUT /api/periods/:id/budgets where the db.run calls of the entries at the
   indices in errors call back with err: budgets.map has issued every UPDATE
   before the first callback runs, Promise.all rejects, the answer is 500 *)
PutPeriodBudgetsRejecting(id, budgets, errors) ==
    IF budgets = <<>>
    THEN /\ resp' = [op |-> "PUT /periods/budgets", status |-> 400, id |-> id]
         /\ UNCHANGED store
    ELSE IF ~ \E p \in budget_periods : p.id = id
    THEN /\ resp' = [op |-> "PUT /periods/budgets", status |-> 404, id |-> id]
         /\ UNCHANGED store
    ELSE /\ period_category_budgets' =
                UpdateBudgets(period_category_budgets, id,
                              Resolved(budgets, errors, 1))
         /\ resp' = [op |-> "PUT /periods/budgets",
                     status |-> IF errors = {} THEN 200 ELSE 500,
                     id |-> id, budgets |-> budgets, errors |-> errors]
         /\ UNCHANGED <<categories, transactions, budget_periods, sqlite_sequence>>

(* GET /api/budget-summary?start_date=&end_date=&period_id= *)
GetBudgetSummary(q) ==
    /\ resp' = [op |-> "GET /budget-summary", status |-> 200, query |-> q,
                body |-> BudgetSummary(q)]
    /\ UNCHANGED store

-----------------------------------------------------------------------------
(* Charts *)

(* the joined rows of categories c INNER JOIN transactions t ON c.id =
   t.category_id that pass the WHERE clause without the test of the type *)
BreakdownJoin_AnyType(q) ==
    {r \in [c : categories, t : transactions] :
        /\ r.c.id = r.t.category_id
        /\ (q.start_date # NULL => DATE(r.t.date) >= q.start_date)
        /\ (q.end_date # NULL => DATE(r.t.date) <= q.end_date)}

(* the joined rows of categories c INNER JOIN transactions t ON c.id =
   t.category_id that pass WHERE t.transaction_type = 'expense' and the date
   clauses of the query *)
BreakdownJoin(q) ==
    {r \in [c : categories, t : transactions] :
        /\ r.c.id = r.t.category_id
        /\ r.t.transaction_type = "expense"
        /\ (q.start_date # NULL => DATE(r.t.date) >= q.start_date)
        /\ (q.end_date # NULL => DATE(r.t.date) <= q.end_date)}

(* SUM(t.amount) over joined rows *)
RECURSIVE SumAmount(_)
SumAmount(rows) ==
    IF rows = {} THEN 0
    ELSE LET r == CHOOSE x \in rows : TRUE
         IN  r.t.amount + SumAmount(rows \ {r})

(* SELECT c.name, SUM(t.amount) as total ... GROUP BY c.id, c.name *)
BreakdownRows(q) ==
    {[name |-> c.name,
      total |-> SumAmount({r \in BreakdownJoin(q) : r.c = c})] :
        c \in {r.c : r \in BreakdownJoin(q)}}

(* ORDER BY total DESC: the sequences of the rows in which no row precedes a
   row of a greater total; rows of equal total come in either order *)
OrderedByTotal(rows) ==
    {body \in [1..Cardinality(rows) -> rows] :
        /\ \A i, j \in 1..Cardinality(rows) : i < j =>
               (body[i] # body[j] /\ body[i].total >= body[j].total)}

(* GET /api/charts/expense-breakdown?start_date=&end_date= *)
GetExpenseBreakdown(q) ==
    /\ \E body \in OrderedByTotal(BreakdownRows(q)) :
           resp' = [op |-> "GET /charts/expense-breakdown", status |-> 200,
                    query |-> q, body |-> body]
    /\ UNCHANGED store

-----------------------------------------------------------------------------
(* GET /api/transactions and the React client *)

(* SELECT t.*, c.name as category_name FROM transactions t LEFT JOIN
   categories c ON t.category_id = c.id WHERE the window holds *)
TransactionRows(q) ==
    {[id |-> t.id, description |-> t.description, amount |-> t.amount,
      category_id |-> t.category_id, transaction_type |-> t.transaction_type,
      date |-> t.date, updated_at |-> t.updated_at,
      category_name |->
          IF \E c \in categories : c.id = t.category_id
          THEN (CHOOSE c \in categories : c.id = t.category_id).name
          ELSE NULLTEXT] :
        t \in {x \in transactions :
                  /\ (q.start_date # NULL => DATE(x.date) >= q.start_date)
                  /\ (q.end_date # NULL => DATE(x.date) <= q.end_date)}}

(* ORDER BY t.date DESC: rows of the same date come in either order *)
NewestFirst(rows) ==
    {body \in [1..Cardinality(rows) -> rows] :
        /\ \A i, j \in 1..Cardinality(rows) : i < j =>
               (body[i] # body[j] /\ body[i].date >= body[j].date)}

(* GET /api/transactions?start_date=&end_date= *)
GetTransactions(q) ==
    /\ \E body \in NewestFirst(TransactionRows(q)) :
           resp' = [op |-> "GET /transactions", status |-> 200, query |-> q,
                    body |-> body]
    /\ UNCHANGED store

(* currentPeriod = null *)
NoPeriod ==
    [id |-> NULL, period_type |-> NULLTEXT, start_date |-> NULL,
     end_date |-> NULL, is_active |-> NULL]

(* the query string fetchTransactions builds from the state of its render *)
TransactionsUrl(dateFilter) ==
    [start_date |-> dateFilter.start, end_date |-> dateFilter.end]

(* the query string fetchBudgetSummary builds from the state of its render *)
BudgetSummaryUrl(dateFilter, currentPeriod) ==
    [start_date |-> dateFilter.start, end_date |-> dateFilter.end,
     period_id |-> currentPeriod.id]

(* useEffect(..., [dateFilter, currentPeriod]) after a render with state app:
   fetchTransactions() and fetchBudgetSummary() each send their request and
   suspend at await fetch(url); no earlier fetch is cancelled.  effect numbers
   the runs of the effect; no statement reads it. *)
RunEffect(app) ==
    [app EXCEPT
        !.effect = @ + 1,
        !.fetchTransactions = @ \cup
            {[effect |-> app.effect + 1, query |-> TransactionsUrl(app.dateFilter),
              answered |-> FALSE, body |-> <<>>]},
        !.fetchBudgetSummary = @ \cup
            {[effect |-> app.effect + 1,
              query |-> BudgetSummaryUrl(app.dateFilter, app.currentPeriod),
              answered |-> FALSE, body |-> {}]}]

(* the page is not open: App has not been rendered *)
NotMounted == [mounted |-> FALSE]

(* App after its first render and the first run of the effect.  The preset
   of dateFilter is left out: no request is built from it.  transactionsOf
   and budgetSummaryOf record the run of the effect and the query whose
   response is held, effect NULL before the first response; no statement
   reads them. *)
App ==
    RunEffect([mounted |-> TRUE,
               dateFilter |-> [start |-> NULL, end |-> NULL],
               currentPeriod |-> NoPeriod,
               transactions |-> <<>>, budgetSummary |-> {},
               transactionsOf |->
                   [effect |-> NULL,
                    query |-> [start_date |-> NULL, end_date |-> NULL]],
               budgetSummaryOf |->
                   [effect |-> NULL,
                    query |-> [start_date |-> NULL, end_date |-> NULL,
                               period_id |-> NULL]],
               effect |-> -1,
               fetchTransactions |-> {}, fetchBudgetSummary |-> {}])

(* the page is opened: the first render of App and its effect *)
Mount ==
    /\ ~ client.mounted
    /\ client' = App
    /\ resp' = [op |-> "App", status |-> 0]
    /\ UNCHANGED <<store, pending>>

(* handleDateFilterChange(startDate, endDate, presetName): setDateFilter
   with a new object, a render, the effect *)
handleDateFilterChange(startDate, endDate) ==
    /\ client.mounted
    /\ client' = RunEffect([client EXCEPT
                               !.dateFilter = [start |-> startDate, end |-> endDate]])
    /\ resp' = [op |-> "handleDateFilterChange", status |-> 0]
    /\ UNCHANGED <<store, pending>>

(* handlePeriodChange(period): setCurrentPeriod(period) and, for a period,
   setDateFilter to its dates, batched into one render; null on null changes
   no state and runs no effect *)
handlePeriodChange(period) ==
    /\ client.mounted
    /\ client' =
           IF period # NoPeriod
           THEN RunEffect([client EXCEPT
                              !.currentPeriod = period,
                              !.dateFilter = [start |-> period.start_date,
                                              end |-> period.end_date]])
           ELSE IF client.currentPeriod # NoPeriod
           THEN RunEffect([client EXCEPT !.currentPeriod = NoPeriod])
           ELSE client
    /\ resp' = [op |-> "handlePeriodChange", status |-> 0]
    /\ UNCHANGED <<store, pending>>

(* the server handles the GET /api/transactions of fetch f *)
AnswerTransactions(f) ==
    /\ client.mounted
    /\ f \in client.fetchTransactions
    /\ ~ f.answered
    /\ GetTransactions(f.query)
    /\ client' = [client EXCEPT !.fetchTransactions =
                     (@ \ {f}) \cup {[f EXCEPT !.answered = TRUE,
                                               !.body = resp'.body]}]
    /\ UNCHANGED pending

(* the server handles the GET /api/budget-summary of fetch f *)
AnswerBudgetSummary(f) ==
    /\ client.mounted
    /\ f \in client.fetchBudgetSummary
    /\ ~ f.answered
    /\ GetBudgetSummary(f.query)
    /\ client' = [client EXCEPT !.fetchBudgetSummary =
                     (@ \ {f}) \cup {[f EXCEPT !.answered = TRUE,
                                               !.body = resp'.body]}]
    /\ UNCHANGED pending

(* fetchTransactions resumes after await fetch(url) and await
   response.json(): setTransactions(data) *)
ResumeFetchTransactions(f) ==
    /\ client.mounted
    /\ f \in client.fetchTransactions
    /\ f.answered
    /\ client' = [client EXCEPT !.transactions = f.body,
                                !.transactionsOf =
                                    [effect |-> f.effect, query |-> f.query],
                                !.fetchTransactions = @ \ {f}]
    /\ resp' = [op |-> "setTransactions", status |-> 0]
    /\ UNCHANGED <<store, pending>>

(* fetchBudgetSummary resumes: setBudgetSummary(data) *)
ResumeFetchBudgetSummary(f) ==
    /\ client.mounted
    /\ f \in client.fetchBudgetSummary
    /\ f.answered
    /\ client' = [client EXCEPT !.budgetSummary = f.body,
                                !.budgetSummaryOf =
                                    [effect |-> f.effect, query |-> f.query],
                                !.fetchBudgetSummary = @ \ {f}]
    /\ resp' = [op |-> "setBudgetSummary", status |-> 0]
    /\ UNCHANGED <<store, pending>>

-----------------------------------------------------------------------------
(* The requests of the model *)

(* bodies of POST /api/transactions with the CURRENT_TIMESTAMP of their insert:
   expenses of the budgeted category on day 1 and on day 2, an income of it, an
   expense booked on the "Income" category, and a body without an amount *)
TransactionRequests ==
    {<<"Lunch", 120, 1, "expense", 1 * TicksPerDay + 1>>,
     <<"Dinner", 80, 1, "expense", 2 * TicksPerDay + 1>>,
     <<"Refund", 80, 1, "income", 2 * TicksPerDay + 1>>,
     <<"Fee", 80, 2, "expense", 1 * TicksPerDay + 1>>,
     <<"Lunch", 0, 1, "expense", 1 * TicksPerDay + 1>>}

(* the queries of GET /api/budget-summary *)
SummaryQueries ==
    [start_date : {NULL, 2}, end_date : {NULL, 1}, period_id : {NULL, 1}]

(* budget limits a PUT /api/periods/:id/budgets entry carries *)
OverrideLimits == {0, 300, NULL}

Init ==
    /\ categories = SeedCategories
    /\ transactions = {}
    /\ budget_periods = {}
    /\ period_category_budgets = {}
    /\ sqlite_sequence = [categories |-> 2, transactions |-> 0, budget_periods |-> 0]
    /\ resp = [op |-> "none", status |-> 0]
    /\ pending = [k \in Clients |-> [pc |-> "idle"]]
    /\ client = NotMounted

CreateTransaction ==
    /\ sqlite_sequence.transactions < MaxTransactions
    /\ \E r \in TransactionRequests : PostTransaction(r[1], r[2], r[3], r[4], r[5])
    /\ UNCHANGED <<pending, client>>

CreateCategory ==
    /\ sqlite_sequence.categories < MaxCategories
    /\ \E name \in {"Rent", "food"} : PostCategory(name, 0)
    /\ UNCHANGED <<pending, client>>

UpdateCategory ==
    /\ PutCategory(1, NULLTEXT, 500)
    /\ UNCHANGED <<pending, client>>

RemoveCategory ==
    /\ DeleteCategory(1, FALSE)
    /\ UNCHANGED <<pending, client>>

CreateSummaryPeriod ==
    /\ sqlite_sequence.budget_periods < MaxSummaryPeriods
    /\ PostPeriod("monthly", 1, 1)
    /\ UNCHANGED <<pending, client>>

RemovePeriod ==
    /\ DeletePeriod(1)
    /\ UNCHANGED <<pending, client>>

ReadPeriodBudgets ==
    /\ GetPeriodBudgets(1)
    /\ UNCHANGED <<pending, client>>

UpdatePeriodBudgets ==
    /\ \E limit \in OverrideLimits :
           PutPeriodBudgets(1, <<[category_id |-> 1, budget_limit |-> limit]>>)
    /\ UNCHANGED <<pending, client>>

ReadBudgetSummary ==
    /\ \E q \in SummaryQueries : GetBudgetSummary(q)
    /\ UNCHANGED <<pending, client>>

Next ==
    \/ CreateTransaction
    \/ CreateCategory
    \/ UpdateCategory
    \/ RemoveCategory
    \/ CreateSummaryPeriod
    \/ RemovePeriod
    \/ ReadPeriodBudgets
    \/ UpdatePeriodBudgets
    \/ ReadBudgetSummary

Spec == Init /\ [][Next]_vars

-----------------------------------------------------------------------------
(* The period store alone: creation, update and deletion of budget periods
   over the seed categories *)

CreatePeriod ==
    /\ sqlite_sequence.budget_periods < MaxPeriods
    /\ \E period_type \in {"monthly", "daily"}, start_date \in Days, end_date \in Days :
           PostPeriod(period_type, start_date, end_date)
    /\ UNCHANGED <<pending, client>>

UpdatePeriod ==
    /\ \E id \in 1..2 :
           \/ \E is_active \in {0, 1} : PutPeriod(id, NULLTEXT, NULL, NULL, is_active)
           \/ \E end_date \in Days : PutPeriod(id, NULLTEXT, NULL, end_date, NULL)
           \/ \E start_date \in Days : PutPeriod(id, NULLTEXT, start_date, NULL, NULL)
    /\ UNCHANGED <<pending, client>>

RemoveAnyPeriod ==
    /\ \E id \in 1..2 : DeletePeriod(id)
    /\ UNCHANGED <<pending, client>>

NextPeriods ==
    \/ CreatePeriod
    \/ UpdatePeriod
    \/ RemoveAnyPeriod

SpecPeriods == Init /\ [][NextPeriods]_vars

-----------------------------------------------------------------------------
(* The category store: creation, renaming and deletion of categories, with
   transactions booked on the seed categories *)

(* names of request bodies: case variants of stored names, a padded name and
   a blank one *)
CategoryNames == {"food", "Rent", " Rent ", " "}

(* names of PUT bodies: another casing of "Food", and both casings of "Rent" *)
NewNames == {"food", "rent", "Rent"}

CategoryIds == 1..MaxCategories

AddCategory ==
    /\ sqlite_sequence.categories < MaxCategories
    /\ \E name \in CategoryNames : PostCategory(name, NULL)
    /\ UNCHANGED <<pending, client>>

RenameCategory ==
    /\ \E id \in CategoryIds, name \in NewNames : PutCategory(id, name, NULL)
    /\ UNCHANGED <<pending, client>>

DeleteAnyCategory ==
    /\ \E id \in CategoryIds, hardDelete \in BOOLEAN : DeleteCategory(id, hardDelete)
    /\ UNCHANGED <<pending, client>>

BookTransaction ==
    /\ sqlite_sequence.transactions < MaxTransactions
    /\ \E category_id \in 1..2 :
           PostTransaction("Lunch", 80, category_id, "expense", TicksPerDay)
    /\ UNCHANGED <<pending, client>>

NextCategories ==
    \/ AddCategory
    \/ RenameCategory
    \/ DeleteAnyCategory
    \/ BookTransaction

SpecCategories == Init /\ [][NextCategories]_vars

-----------------------------------------------------------------------------
(* The transaction store: creation, update and deletion of transactions of the
   seed category "Food" *)

(* bodies of POST /api/transactions: a valid one, a negative, a zero and a
   missing amount, a missing and a blank description, a type that is neither
   income nor expense, a category id that no category has, and no category *)
PostBodies ==
    {[description |-> "Lunch", amount |-> 80, category_id |-> 1,
      transaction_type |-> "expense"],
     [description |-> "Lunch", amount |-> -5, category_id |-> 1,
      transaction_type |-> "expense"],
     [description |-> "Lunch", amount |-> 0, category_id |-> 1,
      transaction_type |-> "expense"],
     [description |-> "Lunch", amount |-> NULL, category_id |-> 1,
      transaction_type |-> "expense"],
     [description |-> NULLTEXT, amount |-> 80, category_id |-> 1,
      transaction_type |-> "expense"],
     [description |-> " ", amount |-> 80, category_id |-> 1,
      transaction_type |-> "expense"],
     [description |-> "Lunch", amount |-> 80, category_id |-> 1,
      transaction_type |-> "transfer"],
     [description |-> "Lunch", amount |-> 80, category_id |-> 3,
      transaction_type |-> "expense"],
     [description |-> "Lunch", amount |-> 80, category_id |-> NULL,
      transaction_type |-> "expense"]}

(* the body of PUT /api/transactions/:id that carries no field *)
NoFields ==
    [description |-> NULLTEXT, amount |-> UNDEFINED, category_id |-> UNDEFINED,
     transaction_type |-> NULLTEXT, date |-> UNDEFINED]

(* bodies of PUT /api/transactions/:id: single fields with valid and invalid
   values, category_id null alone and with a description, and no field *)
PutBodies ==
    {[NoFields EXCEPT !.amount = 80],
     [NoFields EXCEPT !.amount = -5],
     [NoFields EXCEPT !.amount = 0],
     [NoFields EXCEPT !.description = "Dinner"],
     [NoFields EXCEPT !.description = " "],
     [NoFields EXCEPT !.description = "Dinner", !.amount = 0],
     [NoFields EXCEPT !.transaction_type = "income"],
     [NoFields EXCEPT !.transaction_type = "transfer"],
     [NoFields EXCEPT !.category_id = NULL],
     [NoFields EXCEPT !.category_id = 3],
     [NoFields EXCEPT !.description = "Dinner", !.category_id = NULL],
     [NoFields EXCEPT !.date = 3 * TicksPerDay],
     NoFields}

TransactionIds == 1..MaxTransactions

(* the ids of PUT and DELETE /api/transactions/:id: the first transaction and
   an id that no transaction gets *)
RequestedIds == {1, MaxTransactions + 1}

(* CURRENT_TIMESTAMP of the INSERT and of the UPDATE statements *)
CreatedAt == TicksPerDay

UpdatedAt == TicksPerDay + 1

CreateAnyTransaction ==
    /\ sqlite_sequence.transactions < MaxTransactions
    /\ \E b \in PostBodies :
           PostTransaction(b.description, b.amount, b.category_id,
                           b.transaction_type, CreatedAt)
    /\ UNCHANGED <<pending, client>>

UpdateTransaction ==
    /\ \E id \in RequestedIds, b \in PutBodies :
           PutTransaction(id, b.description, b.amount, b.category_id,
                          b.transaction_type, b.date, UpdatedAt)
    /\ UNCHANGED <<pending, client>>

RemoveTransaction ==
    /\ \E id \in TransactionIds \cup RequestedIds : DeleteTransaction(id)
    /\ UNCHANGED <<pending, client>>

NextTransactions ==
    \/ CreateAnyTransaction
    \/ UpdateTransaction
    \/ RemoveTransaction

SpecTransactions == Init /\ [][NextTransactions]_vars

-----------------------------------------------------------------------------
(* POST /api/periods of several connections at the grain of its db callbacks,
   interleaved with reads of periods and a change of a category default *)

(* the date ranges of the POST bodies *)
PostedRanges == {<<1, 1>>, <<1, 2>>}

PostedIds == 1..MaxPostedPeriods

OverlapQueryDone ==
    /\ sqlite_sequence.budget_periods
           + Cardinality({k \in Clients : pending[k].pc = "insertPeriod"})
               < MaxPostedPeriods
    /\ \E k \in Clients, range \in PostedRanges :
           PostPeriodOverlapQuery(k, "monthly", range[1], range[2])
    /\ UNCHANGED client

InsertPeriodDone ==
    /\ \E k \in Clients : PostPeriodInsertPeriod(k)
    /\ UNCHANGED client

CopyBudgetsDone ==
    /\ \E k \in Clients, err \in BOOLEAN : PostPeriodCopyBudgets(k, err)
    /\ UNCHANGED client

PeriodAnswered ==
    /\ \E k \in Clients : PostPeriodRespond(k)
    /\ UNCHANGED client

ReadPeriod ==
    /\ \E id \in PostedIds : GetPeriod(id)
    /\ UNCHANGED <<pending, client>>

ReadBudgetsOfPeriod ==
    /\ \E id \in PostedIds : GetPeriodBudgets(id)
    /\ UNCHANGED <<pending, client>>

ChangeDefault ==
    /\ \E budget_limit \in {200, 500} : PutCategory(1, NULLTEXT, budget_limit)
    /\ UNCHANGED <<pending, client>>

NextPostPeriod ==
    \/ OverlapQueryDone
    \/ InsertPeriodDone
    \/ CopyBudgetsDone
    \/ PeriodAnswered
    \/ ReadPeriod
    \/ ReadBudgetsOfPeriod
    \/ ChangeDefault

SpecPostPeriod == Init /\ [][NextPostPeriod]_vars

-----------------------------------------------------------------------------
(* Category defaults and the budgets of periods: periods are created on
   successive days, the default of "Food" is changed, and the budgets of a
   period are rewritten, with or without failing UPDATE statements *)

(* bodies of PUT /api/periods/:id/budgets *)
BudgetLists ==
    {<<[category_id |-> 1, budget_limit |-> 300],
       [category_id |-> 2, budget_limit |-> 50]>>,
     <<[category_id |-> 1, budget_limit |-> 0]>>,
     <<>>}

CreateNextPeriod ==
    /\ sqlite_sequence.budget_periods < MaxPostedPeriods
    /\ \E day \in Days :
           /\ day = sqlite_sequence.budget_periods + 1
           /\ PostPeriod("monthly", day, day)
    /\ UNCHANGED <<pending, client>>

SetDefault ==
    /\ PutCategory(1, NULLTEXT, 500)
    /\ UNCHANGED <<pending, client>>

SetPeriodBudgets ==
    /\ \E id \in PostedIds, budgets \in BudgetLists :
           \E errors \in SUBSET (1..Len(budgets)) :
               PutPeriodBudgetsRejecting(id, budgets, errors)
    /\ UNCHANGED <<pending, client>>

NextBudgets ==
    \/ CreateNextPeriod
    \/ SetDefault
    \/ SetPeriodBudgets

SpecBudgets == Init /\ [][NextBudgets]_vars

-----------------------------------------------------------------------------
(* Requests addressed to ids that no row has: the next id of each table,
   while transactions, categories and periods are created *)

UnknownTransactionId == sqlite_sequence.transactions + 1

UnknownCategoryId == sqlite_sequence.categories + 1

UnknownPeriodId == sqlite_sequence.budget_periods + 1

UnknownTransaction ==
    /\ \/ \E b \in PutBodies :
              PutTransaction(UnknownTransactionId, b.description, b.amount,
                             b.category_id, b.transaction_type, b.date, UpdatedAt)
       \/ DeleteTransaction(UnknownTransactionId)
    /\ UNCHANGED <<pending, client>>

UnknownCategory ==
    /\ \/ \E name \in NewNames, budget_limit \in {NULL, 500} :
              PutCategory(UnknownCategoryId, name, budget_limit)
       \/ \E hardDelete \in BOOLEAN : DeleteCategory(UnknownCategoryId, hardDelete)
    /\ UNCHANGED <<pending, client>>

UnknownPeriod ==
    /\ \/ GetPeriod(UnknownPeriodId)
       \/ \E is_active \in {0, 1} :
              PutPeriod(UnknownPeriodId, NULLTEXT, NULL, NULL, is_active)
       \/ DeletePeriod(UnknownPeriodId)
       \/ GetPeriodBudgets(UnknownPeriodId)
       \/ \E budgets \in BudgetLists : PutPeriodBudgets(UnknownPeriodId, budgets)
    /\ UNCHANGED <<pending, client>>

NextUnknown ==
    \/ CreateAnyTransaction
    \/ AddCategory
    \/ CreateNextPeriod
    \/ UnknownTransaction
    \/ UnknownCategory
    \/ UnknownPeriod

SpecUnknown == Init /\ [][NextUnknown]_vars

-----------------------------------------------------------------------------
(* The expense breakdown over transactions of "Food" and "Income", with a
   third category that has no transaction and with "Food" deactivated *)

(* the date windows of GET /api/charts/expense-breakdown *)
BreakdownQueries == [start_date : {NULL, 2}, end_date : {NULL, 1}]

ReadExpenseBreakdown ==
    /\ \E q \in BreakdownQueries : GetExpenseBreakdown(q)
    /\ UNCHANGED <<pending, client>>

NextCharts ==
    \/ CreateTransaction
    \/ CreateCategory
    \/ RemoveCategory
    \/ ReadExpenseBreakdown

SpecCharts == Init /\ [][NextCharts]_vars

-----------------------------------------------------------------------------
(* The current period: periods over days 1 and 2 are created, deactivated and
   reactivated, and the current period is read on days 1 to 3 *)

PostRange ==
    /\ sqlite_sequence.budget_periods < MaxPostedPeriods
    /\ \E start_date \in 1..2, end_date \in 1..2 :
           PostPeriod("monthly", start_date, end_date)
    /\ UNCHANGED <<pending, client>>

SetActive ==
    /\ \E id \in PostedIds, is_active \in {0, 1} :
           PutPeriod(id, NULLTEXT, NULL, NULL, is_active)
    /\ UNCHANGED <<pending, client>>

ReadCurrentPeriod ==
    /\ \E today \in 1..3 : GetCurrentPeriod(today)
    /\ UNCHANGED <<pending, client>>

NextCurrent ==
    \/ PostRange
    \/ SetActive
    \/ ReadCurrentPeriod

SpecCurrent == Init /\ [][NextCurrent]_vars

-----------------------------------------------------------------------------
(* Categories created before and after a period, PUT /periods/:id/budgets on
   one category at a time, and the summary of the period *)

LateLimits == {0, 300}

SetCategoryBudget ==
    /\ \E id \in PostedIds, category_id \in CategoryIds, budget_limit \in LateLimits :
           PutPeriodBudgets(id, <<[category_id |-> category_id,
                                   budget_limit |-> budget_limit]>>)
    /\ UNCHANGED <<pending, client>>

ReadPeriodSummary ==
    /\ \E id \in PostedIds :
           GetBudgetSummary([start_date |-> NULL, end_date |-> NULL, period_id |-> id])
    /\ UNCHANGED <<pending, client>>

NextLateCategory ==
    \/ AddCategory
    \/ CreateNextPeriod
    \/ SetCategoryBudget
    \/ ReadPeriodSummary

SpecLateCategory == Init /\ [][NextLateCategory]_vars

-----------------------------------------------------------------------------
(* The React client: the date filter and the selected period change while
   fetches are in flight; the server answers the fetches and their responses
   arrive in any order *)

FilterRanges == {<<NULL, NULL>>, <<2, 2>>}

RecordTransaction ==
    /\ sqlite_sequence.transactions < MaxListed
    /\ PostTransaction("Lunch", 80, 1, "expense", TicksPerDay)
    /\ UNCHANGED <<pending, client>>

ChangeDateFilter ==
    /\ client.mounted
    /\ client.effect < MaxChanges
    /\ \E range \in FilterRanges : handleDateFilterChange(range[1], range[2])

ChangePeriod ==
    /\ client.mounted
    /\ client.effect < MaxChanges
    /\ \E period \in budget_periods \cup {NoPeriod} : handlePeriodChange(period)

TransactionsAnswered ==
    /\ client.mounted
    /\ \E f \in client.fetchTransactions : AnswerTransactions(f)

BudgetSummaryAnswered ==
    /\ client.mounted
    /\ \E f \in client.fetchBudgetSummary : AnswerBudgetSummary(f)

TransactionsArrive ==
    /\ client.mounted
    /\ \E f \in client.fetchTransactions : ResumeFetchTransactions(f)

BudgetSummaryArrives ==
    /\ client.mounted
    /\ \E f \in client.fetchBudgetSummary : ResumeFetchBudgetSummary(f)

NextClient ==
    \/ RecordTransaction
    \/ CreateSummaryPeriod
    \/ Mount
    \/ ChangeDateFilter
    \/ ChangePeriod
    \/ TransactionsAnswered
    \/ BudgetSummaryAnswered
    \/ TransactionsArrive
    \/ BudgetSummaryArrives

SpecClient == Init /\ [][NextClient]_vars

-----------------------------------------------------------------------------
(* Vocabulary of the properties *)

IsSummary == resp.op = "GET /budget-summary"

(* the categories a budget summary is about *)
InScope == {c \in categories : c.is_active = 1 /\ c.name # "Income"}

(* the calendar day a DATETIME lies on *)
CalendarDay(ts) ==
    CHOOSE d \in 0..(ts + 1) : d * TicksPerDay <= ts /\ ts < (d + 1) * TicksPerDay

(* the transactions of category c of one type dated in [start_date, end_date],
   a NULL bound being open *)
InWindow(c, type, start_date, end_date) ==
    {t \in transactions :
        /\ t.category_id = c.id
        /\ t.transaction_type = type
        /\ (start_date # NULL => CalendarDay(t.date) >= start_date)
        /\ (end_date # NULL => CalendarDay(t.date) <= end_date)}

RECURSIVE Total(_)
Total(ts) ==
    IF ts = {} THEN 0
    ELSE LET t == CHOOSE x \in ts : TRUE IN t.amount + Total(ts \ {t})

(* the override rows of category c in period id *)
Overrides(id, c) ==
    {o \in period_category_budgets : o.period_id = id /\ o.category_id = c.id}

(* the rows of the last summary that report category c *)
RowsOf(c) == {r \in resp.body : r.name = c.name}

-----------------------------------------------------------------------------
(* C1: every active category other than "Income" has a row in the budget
   summary, with or without period_id, also when all of its transactions lie
   outside the date window or it has none; such a row has spent = 0 and
   income = 0. *)
C1_EveryInScopeCategoryHasARow ==
    IsSummary =>
        \A c \in InScope :
            /\ RowsOf(c) # {}
            /\ \A r \in RowsOf(c) :
                   /\ InWindow(c, "expense", resp.query.start_date,
                               resp.query.end_date) = {} => r.spent = 0
                   /\ InWindow(c, "income", resp.query.start_date,
                               resp.query.end_date) = {} => r.income = 0

(* the category a summary row reports: names are unique in the store *)
CategoryOf(r) == CHOOSE c \in categories : c.name = r.name

(* a summary was answered and each of its rows names a stored category *)
RowsNameCategories ==
    IsSummary /\ \A r \in resp.body : \E c \in categories : c.name = r.name

(* C2 as stated: with period_id the reported limit is the limit of the override
   row (period_id, c.id) whenever that row exists, else the category default;
   without period_id it is the default. *)
C2_LimitOfOverrideRowIfAny ==
    RowsNameCategories =>
        \A r \in resp.body :
            LET c == CategoryOf(r)
                rows == Overrides(resp.query.period_id, c)
            IN  IF resp.query.period_id # NULL /\ rows # {}
                THEN \E o \in rows : r.budget_limit = o.budget_limit
                ELSE r.budget_limit = c.budget_limit

(* C2 (amended): with period_id the reported limit is the limit of the override
   row (period_id, c.id) when that row exists and its budget_limit is not NULL,
   and the category default otherwise; without period_id it is always the
   default, whatever override rows exist. *)
C2_LimitSource ==
    RowsNameCategories =>
        \A r \in resp.body :
            LET c == CategoryOf(r)
                rows == {o \in Overrides(resp.query.period_id, c) :
                            o.budget_limit # NULL}
            IN  IF resp.query.period_id # NULL /\ rows # {}
                THEN \E o \in rows : r.budget_limit = o.budget_limit
                ELSE r.budget_limit = c.budget_limit

(* a summary for a period reports an override that differs from the default for
   one category and the default of a category without an override row *)
C2_Witness ==
    /\ RowsNameCategories
    /\ resp.query.period_id # NULL
    /\ \E r \in resp.body :
           /\ \E o \in Overrides(resp.query.period_id, CategoryOf(r)) :
                  o.budget_limit # NULL /\ o.budget_limit # CategoryOf(r).budget_limit
                  /\ r.budget_limit = o.budget_limit
    /\ \E r \in resp.body : Overrides(resp.query.period_id, CategoryOf(r)) = {}

(* C3: the period and the date window are independent: with period_id, spent
   and income are the sums over the explicit start_date/end_date window alone,
   so without a window the transactions outside the period's own range count;
   and a category whose override is 300 and whose transactions all lie outside
   the window is reported with spent 0, remaining 300, percentage 0. *)
C3_PeriodDoesNotBoundTheWindow ==
    (IsSummary /\ resp.query.period_id # NULL) =>
        \A c \in InScope :
            LET q == resp.query
                spent == Total(InWindow(c, "expense", q.start_date, q.end_date))
                income == Total(InWindow(c, "income", q.start_date, q.end_date))
            IN  /\ \E r \in RowsOf(c) : r.spent = spent /\ r.income = income
                /\ \A r \in RowsOf(c) : r.spent = spent /\ r.income = income
                /\ (/\ \E o \in Overrides(q.period_id, c) : o.budget_limit = 300
                    /\ \E t \in transactions : t.category_id = c.id
                    /\ InWindow(c, "expense", q.start_date, q.end_date) = {})
                   => \A r \in RowsOf(c) :
                          /\ r.spent = 0
                          /\ r.remaining = 300
                          /\ r.percentage = [num |-> 0, den |-> 1]

(* a summary for a stored period, without a window, counts an expense dated
   after the period's end_date *)
C3_Witness ==
    /\ IsSummary
    /\ resp.query.start_date = NULL /\ resp.query.end_date = NULL
    /\ \E p \in budget_periods, c \in InScope, t \in transactions :
           /\ p.id = resp.query.period_id
           /\ t.category_id = c.id /\ t.transaction_type = "expense"
           /\ CalendarDay(t.date) > p.end_date
           /\ \E r \in RowsOf(c) : r.spent >= t.amount

(* C4: in every row, spent is the sum of the amounts of the category's expense
   transactions whose calendar day lies in [start_date, end_date] (a missing
   bound open), income is that sum over its income transactions, and remaining
   and percentage are fixed by budget_limit and spent alone. *)
C4_SpentAndIncomeAreWindowSums ==
    RowsNameCategories =>
        \A r \in resp.body :
            LET c == CategoryOf(r)
                q == resp.query
            IN  /\ r.spent = Total(InWindow(c, "expense", q.start_date, q.end_date))
                /\ r.income = Total(InWindow(c, "income", q.start_date, q.end_date))
                /\ \A x \in resp.body :
                       (x.budget_limit = r.budget_limit /\ x.spent = r.spent)
                       => (x.remaining = r.remaining /\ x.percentage = r.percentage)
                /\ r.remaining + r.spent = r.budget_limit

(* a windowed summary reports a category that has an expense inside the window
   and another outside it *)
C4_Witness ==
    /\ RowsNameCategories
    /\ resp.query.start_date # NULL
    /\ \E r \in resp.body :
           /\ r.spent > 0
           /\ r.spent < Total({t \in transactions :
                  t.category_id = CategoryOf(r).id
                  /\ t.transaction_type = "expense"})

(* C5: in every row remaining = budget_limit - spent for the limit the row
   reports, negative when spent exceeds it, never clamped to 0. *)
C5_RemainingIsLimitMinusSpent ==
    IsSummary =>
        \A r \in resp.body :
            /\ r.remaining = r.budget_limit - r.spent
            /\ r.spent > r.budget_limit => r.remaining < 0

(* a row over budget *)
C5_Witness ==
    IsSummary /\ \E r \in resp.body : r.spent > r.budget_limit /\ r.remaining < 0

(* C6: in every row percentage = (spent / budget_limit) * 100 when the reported
   limit is above 0 and 0 when it is 0, whatever was spent; a limit of 500 with
   expenses of 120 and 80 in the window gives spent 200, remaining 300,
   percentage 40. *)
C6_Percentage ==
    RowsNameCategories =>
        \A r \in resp.body :
            /\ r.percentage.den > 0
            /\ r.budget_limit > 0 =>
                   r.percentage.num * r.budget_limit = r.spent * 100 * r.percentage.den
            /\ r.budget_limit = 0 => r.percentage.num = 0
            /\ (/\ r.budget_limit = 500
                /\ {t.amount : t \in InWindow(CategoryOf(r), "expense",
                         resp.query.start_date, resp.query.end_date)} = {120, 80}
                /\ Cardinality(InWindow(CategoryOf(r), "expense",
                         resp.query.start_date, resp.query.end_date)) = 2)
               => /\ r.spent = 200
                  /\ r.remaining = 300
                  /\ r.percentage = [num |-> 40, den |-> 1]

(* the example: limit 500, expenses 120 and 80 *)
C6_Witness ==
    /\ IsSummary
    /\ \E r \in resp.body :
           /\ r.budget_limit = 500 /\ r.spent = 200 /\ r.remaining = 300
           /\ r.percentage = [num |-> 40, den |-> 1]
    /\ {t.amount : t \in transactions} = {120, 80}

(* C7: no row is for the category named "Income" or for an inactive category,
   also when expense transactions reference it, and no category has two rows;
   with and without period_id, for every window. *)
C7_NoIncomeNoInactiveNoDuplicate ==
    IsSummary =>
        /\ \A r \in resp.body :
               /\ r.name # "Income"
               /\ \E c \in categories : c.name = r.name /\ c.is_active = 1
               /\ ~ \E c \in categories : c.name = r.name /\ c.is_active # 1
        /\ \A r1, r2 \in resp.body : r1.name = r2.name => r1 = r2

(* a non-empty summary while expenses reference "Income" and an inactive
   category *)
C7_Witness ==
    /\ IsSummary
    /\ resp.body # {}
    /\ \E c \in categories, t \in transactions :
           c.name = "Income" /\ t.category_id = c.id /\ t.transaction_type = "expense"
    /\ \E c \in categories, t \in transactions :
           c.is_active = 0 /\ t.category_id = c.id /\ t.transaction_type = "expense"

(* C8: a summary for a period_id that names no stored period succeeds and
   equals the summary of the same request without period_id, every category
   reporting its default limit. *)
C8_UnknownPeriodEqualsNoPeriod ==
    (/\ IsSummary
     /\ resp.query.period_id # NULL
     /\ ~ \E p \in budget_periods : p.id = resp.query.period_id)
    => /\ resp.status = 200
       /\ resp.body = BudgetSummary([resp.query EXCEPT !.period_id = NULL])
       /\ \A r \in resp.body :
              \E c \in categories : c.name = r.name /\ r.budget_limit = c.budget_limit

-----------------------------------------------------------------------------
IsCreated == resp.op = "POST /periods" /\ resp.status = 201

(* C9: GET /periods/:id/budgets right after the POST /periods that created the
   period returns exactly one row per category active at the creation, none for
   an inactive one, each with the category's default budget_limit. *)
C9_SnapshotOfActiveCategories ==
    [][(/\ IsCreated
        /\ resp'.op = "GET /periods/budgets"
        /\ resp'.id = resp.id)
       => /\ resp'.body =
                {[category_id |-> c.id, category_name |-> c.name,
                  budget_limit |-> c.budget_limit] :
                    c \in {x \in categories : x.is_active = 1}}
          /\ resp'.status = 200]_vars

(* the budgets of a stored period are read: a row for every active category
   with its default limit and no row for the inactive one *)
C9_Witness ==
    /\ resp.op = "GET /periods/budgets"
    /\ \E p \in budget_periods : p.id = resp.id
    /\ \E c \in categories : c.is_active = 0
    /\ resp.body # {}
    /\ resp.body = {[category_id |-> c.id, category_name |-> c.name,
                     budget_limit |-> c.budget_limit] :
                       c \in {x \in categories : x.is_active = 1}}

-----------------------------------------------------------------------------
(* the inclusive ranges of period p and [start_date, end_date] share a day *)
SharesDay(p, start_date, end_date) ==
    \E d \in Days :
        /\ start_date <= d /\ d <= end_date
        /\ p.start_date <= d /\ d <= p.end_date

(* C10: POST /periods is answered 400 and stores nothing whenever the new range
   shares a day with the range of an active period, however the two ranges
   lie; the overlap query finds exactly the active periods whose range
   intersects the new one. *)
C10_OverlappingPeriodRejected ==
    /\ [](\A start_date \in Days, end_date \in Days :
             start_date <= end_date =>
                 Overlap(start_date, end_date) =
                     {p \in budget_periods :
                         p.is_active = 1 /\ SharesDay(p, start_date, end_date)})
    /\ [][(/\ resp'.op = "POST /periods"
           /\ \E p \in budget_periods :
                  p.is_active = 1 /\ SharesDay(p, resp'.start_date, resp'.end_date))
          => (resp'.status = 400 /\ store' = store)]_vars

(* the example: active periods [1, 2] and [3, 4], and [2, 3] is rejected *)
C10_Witness ==
    /\ resp.op = "POST /periods" /\ resp.status = 400 /\ resp.error = "overlap"
    /\ resp.start_date = 2 /\ resp.end_date = 3
    /\ \E p1, p2 \in budget_periods :
           /\ p1.is_active = 1 /\ p1.start_date = 1 /\ p1.end_date = 2
           /\ p2.is_active = 1 /\ p2.start_date = 3 /\ p2.end_date = 4

-----------------------------------------------------------------------------
(* C11: in every reachable state, after any sequence of POST /periods,
   PUT /periods/:id and DELETE /periods/:id requests, no two periods with
   is_active = 1 have date ranges that share a day. *)
C11_ActivePeriodsDisjoint ==
    \A p1 \in budget_periods, p2 \in budget_periods :
        (p1.id # p2.id /\ p1.is_active = 1 /\ p2.is_active = 1)
            => ~ SharesDay(p1, p2.start_date, p2.end_date)

-----------------------------------------------------------------------------
(* C12: after a successful DELETE /periods/:id no period_category_budgets row
   with that period_id remains, and in every reachable state each
   period_category_budgets row refers to a period that is still stored. *)
C12_OverrideRowsOfStoredPeriods ==
    /\ (resp.op = "DELETE /periods" /\ resp.status = 200)
           => ~ \E o \in period_category_budgets : o.period_id = resp.id
    /\ \A o \in period_category_budgets :
           \E p \in budget_periods : p.id = o.period_id

-----------------------------------------------------------------------------
(* the stored category with this id *)
CategoryWithId(id) == CHOOSE c \in categories : c.id = id

(* some transaction references category id *)
Referenced(id) == \E t \in transactions : t.category_id = id

(* the step clears is_active of category c and keeps its row and every
   transaction *)
SoftDeletes(c) ==
    /\ categories' = (categories \ {c}) \cup {[c EXCEPT !.is_active = 0]}
    /\ transactions' = transactions

(* the step removes the row of category c *)
HardDeletes(c) ==
    /\ categories' = categories \ {c}
    /\ transactions' = transactions

(* C13 as stated: a delete request on an existing category referenced by at
   least one transaction soft-deletes it (the request with hard_delete=true is
   left to C14), and a delete request on an existing category referenced by no
   transaction removes its row. *)
C13_DeletionPolicy ==
    [][\A id \in CategoryIds, hardDelete \in BOOLEAN :
          (DeleteCategory(id, hardDelete) /\ \E c \in categories : c.id = id)
              => IF Referenced(id)
                 THEN ~ hardDelete => SoftDeletes(CategoryWithId(id))
                 ELSE HardDeletes(CategoryWithId(id))]_vars

(* C13 (amended): a delete request without hard_delete=true soft-deletes an
   existing category, whether or not a transaction references it; the row is
   removed only by a request with hard_delete=true on a category that no
   transaction references. *)
C13_DeletionPolicyByFlag ==
    [][\A id \in CategoryIds, hardDelete \in BOOLEAN :
          (DeleteCategory(id, hardDelete) /\ \E c \in categories : c.id = id)
              => /\ ~ hardDelete => SoftDeletes(CategoryWithId(id))
                 /\ (hardDelete /\ ~ Referenced(id))
                        => HardDeletes(CategoryWithId(id))
                 /\ categories' # categories /\ (\A c \in categories' : c.id # id)
                        => (hardDelete /\ ~ Referenced(id))]_vars

(* a category that no transaction references was deleted and is kept, inactive *)
C13_Witness ==
    /\ resp.op = "DELETE /categories" /\ resp.status = 200
    /\ resp.deleted = FALSE
    /\ ~ Referenced(resp.id)
    /\ \E c \in categories : c.id = resp.id /\ c.is_active = 0

-----------------------------------------------------------------------------
(* C14: DELETE /categories/:id with hard_delete=true removes the row of a
   category that no transaction references; when a transaction references it
   the answer is 400 with the number of referencing transactions, and the
   category, its is_active flag and all transactions stay as they are. *)
C14_HardDeleteOrConflict ==
    [][\A id \in CategoryIds :
          (DeleteCategory(id, TRUE) /\ \E c \in categories : c.id = id)
              => IF Referenced(id)
                 THEN /\ resp'.status = 400
                      /\ resp'.transaction_count =
                             Cardinality({t \in transactions : t.category_id = id})
                      /\ store' = store
                 ELSE /\ resp'.status = 200
                      /\ HardDeletes(CategoryWithId(id))]_vars

(* the conflict was answered for an active category with one or more
   transactions, and the category is still active *)
C14_Witness ==
    /\ resp.op = "DELETE /categories" /\ resp.status = 400
    /\ resp.transaction_count =
           Cardinality({t \in transactions : t.category_id = resp.id})
    /\ resp.transaction_count >= 1
    /\ \E c \in categories : c.id = resp.id /\ c.is_active = 1

-----------------------------------------------------------------------------
(* no two stored categories have names equal ignoring case *)
UniqueIgnoringCase ==
    \A c1 \in categories, c2 \in categories :
        c1.id # c2.id => LOWER(c1.name) # LOWER(c2.name)

(* C15: no two stored categories, active or not, have names equal ignoring
   case; a create or a rename that would produce such a pair is rejected and
   changes nothing; a rename of a category to another casing of its own name
   is accepted. *)
C15_NamesUniqueIgnoringCase ==
    /\ UniqueIgnoringCase
    /\ [][UniqueIgnoringCase']_vars
    /\ [][resp'.op = "POST /categories" =>
             \A name \in CategoryNames :
                 (/\ PostCategory(name, NULL)
                  /\ \E c \in categories : LOWER(c.name) = LOWER(TRIM(name)))
                     => (resp'.status = 400 /\ store' = store)]_vars
    /\ [][resp'.op = "PUT /categories" =>
             \A id \in CategoryIds, name \in NewNames :
                 PutCategory(id, name, NULL) =>
                     /\ (\E c \in categories : c.id = id
                             /\ \E d \in categories :
                                    d.id # id /\ LOWER(d.name) = LOWER(TRIM(name)))
                            => (resp'.status = 400 /\ store' = store)
                     /\ (\E c \in categories :
                             /\ c.id = id
                             /\ LOWER(c.name) = LOWER(TRIM(name))
                             /\ c.name # TRIM(name))
                            => /\ resp'.status = 200
                               /\ \E c \in categories' :
                                      c.id = id /\ c.name = TRIM(name)]_vars

(* the seed category "Food" was renamed to "food", while a second category
   was refused that name *)
C15_Witness ==
    /\ resp.op = "PUT /categories" /\ resp.status = 200 /\ resp.id = 1
    /\ \E c \in categories : c.id = 1 /\ c.name = "food"
    /\ \E c \in categories : c.id = 3

-----------------------------------------------------------------------------
(* every stored transaction has a positive amount *)
AmountsPositive == \A t \in transactions : t.amount > 0

(* C16: in every reachable state, after any sequence of POST /transactions and
   PUT /transactions/:id requests, every stored transaction has amount > 0; a
   create or an update that carries a zero or negative amount is rejected and
   stores nothing. *)
C16_StoredAmountsPositive ==
    /\ AmountsPositive
    /\ [][AmountsPositive']_vars
    /\ [][resp'.op = "POST /transactions" =>
             \A b \in PostBodies :
                 (/\ b.amount # NULL /\ b.amount <= 0
                  /\ PostTransaction(b.description, b.amount, b.category_id,
                                     b.transaction_type, CreatedAt))
                     => (resp'.status >= 400 /\ store' = store)]_vars
    /\ [][resp'.op = "PUT /transactions" =>
             \A id \in RequestedIds, b \in PutBodies :
                 (/\ b.amount # UNDEFINED /\ b.amount <= 0
                  /\ PutTransaction(id, b.description, b.amount, b.category_id,
                                    b.transaction_type, b.date, UpdatedAt))
                     => (resp'.status >= 400 /\ store' = store)]_vars

-----------------------------------------------------------------------------
(* a read that finds a period finds override rows of it, and a POST /periods
   answered 500 has left no period row *)
PostedPeriodsComplete ==
    /\ (resp.op = "GET /periods" /\ resp.status = 200)
           => \E o \in period_category_budgets : o.period_id = resp.id
    /\ (resp.op = "GET /periods/budgets"
            /\ \E p \in budget_periods : p.id = resp.id)
           => resp.body # {}
    /\ (resp.op = "POST /periods" /\ resp.status = 500)
           => ~ \E p \in budget_periods : p.id = resp.id

(* C17: POST /periods inserts the period row and its override rows as one
   atomic unit: no request interleaved with it observes the new period before
   its override rows exist, the override limits are the category defaults of
   the moment the period row was inserted, and when the override insert fails
   no period row is left in the store. *)
C17_PostPeriodAtomic ==
    /\ PostedPeriodsComplete
    /\ [][PostedPeriodsComplete']_vars
    /\ [][\A k \in Clients :
             (pending[k].pc = "copyBudgets" /\ pending'[k].pc = "respond")
                 => period_category_budgets' =
                        period_category_budgets \cup pending[k].defaults]_vars

-----------------------------------------------------------------------------
(* the least element of a non-empty set of indices *)
Least(S) == CHOOSE i \in S : \A j \in S : i <= j

(* C18: when the row update of an entry of PUT /periods/:id/budgets fails,
   either every entry was applied or no entry after the first failing one was
   applied; an error is never answered while entries that follow the failed
   one have been written. *)
C18_FirstFailureShortCircuits ==
    [][(resp'.op = "PUT /periods/budgets" /\ resp'.status = 500)
          => \/ period_category_budgets' =
                    UpdateBudgets(period_category_budgets, resp'.id, resp'.budgets)
             \/ period_category_budgets' =
                    UpdateBudgets(period_category_budgets, resp'.id,
                                  SubSeq(resp'.budgets, 1,
                                         Least(resp'.errors) - 1))]_vars

-----------------------------------------------------------------------------
(* the override rows of the periods other than id *)
RowsOfOtherPeriods(rows, id) == {o \in rows : o.period_id # id}

(* C19: override rows and category defaults are independent after the period
   was created: PUT /categories/:id changing budget_limit leaves every override
   row unchanged, and PUT /periods/:id/budgets changes only override rows of
   that period, leaving the default of every category and the override rows
   of every other period unchanged. *)
C19_DefaultsAndOverridesIndependent ==
    [][/\ resp'.op = "PUT /categories"
              => period_category_budgets' = period_category_budgets
       /\ resp'.op = "PUT /periods/budgets"
              => /\ categories' = categories
                 /\ RowsOfOtherPeriods(period_category_budgets', resp'.id)
                        = RowsOfOtherPeriods(period_category_budgets, resp'.id)
                 /\ <<transactions', budget_periods'>>
                        = <<transactions, budget_periods>>]_vars

(* the budgets of period 1 were rewritten: its "Food" row, the "Food" row of
   period 2 and the default of "Food" now hold three different limits *)
C19_Witness ==
    /\ resp.op = "PUT /periods/budgets" /\ resp.status = 200 /\ resp.id = 1
    /\ \E c \in categories, o1 \in period_category_budgets,
          o2 \in period_category_budgets :
           /\ c.id = 1 /\ c.budget_limit = 500
           /\ o1.period_id = 1 /\ o1.category_id = 1 /\ o1.budget_limit = 300
           /\ o2.period_id = 2 /\ o2.category_id = 1 /\ o2.budget_limit = 200

-----------------------------------------------------------------------------
(* every stored period ends on or after the day it starts *)
DatesOrdered == \A p \in budget_periods : p.end_date >= p.start_date

(* the body of a PUT /periods/:id would leave period id ending before it
   starts *)
WouldEndBeforeStart(id, start_date, end_date) ==
    \E p \in budget_periods :
        /\ p.id = id
        /\ (IF end_date # NULL THEN end_date ELSE p.end_date)
               < (IF start_date # NULL THEN start_date ELSE p.start_date)

(* C20: in every reachable state, after any sequence of POST /periods and
   PUT /periods/:id requests, also of a PUT that changes only start_date or
   only end_date, every stored period has end_date >= start_date; a request
   that would break this is rejected and changes nothing. *)
C20_EndNotBeforeStart ==
    /\ DatesOrdered
    /\ [][/\ DatesOrdered'
          /\ (resp'.op = "POST /periods" /\ resp'.end_date < resp'.start_date)
                 => (resp'.status = 400 /\ store' = store)
          /\ (resp'.op = "PUT /periods" /\ resp'.status < 400) =>
                 \A day \in Days :
                     /\ ~ (/\ WouldEndBeforeStart(resp'.id, day, NULL)
                           /\ PutPeriod(resp'.id, NULLTEXT, day, NULL, NULL))
                     /\ ~ (/\ WouldEndBeforeStart(resp'.id, NULL, day)
                           /\ PutPeriod(resp'.id, NULLTEXT, NULL, day, NULL))
          /\ (resp'.op = "PUT /periods" /\ resp'.status >= 400)
                 => store' = store]_vars

(* a PUT was refused by the table for a stored period that starts and ends on
   day 3, which any earlier end_date or later start_date would break *)
C20_Witness ==
    /\ resp.op = "PUT /periods" /\ resp.status = 500
    /\ \E p \in budget_periods : p.start_date = 3 /\ p.end_date = 3
    /\ DatesOrdered

-----------------------------------------------------------------------------
(* the description is empty after trimming *)
Blank(description) == LENGTH(TRIM(description)) = 0

(* every stored transaction has a description that is not blank and a type
   that is income or expense *)
DescriptionsAndTypesValid ==
    \A t \in transactions :
        ~ Blank(t.description) /\ t.transaction_type \in {"income", "expense"}

(* C21: POST /transactions and PUT /transactions/:id answer 400 and leave the
   store unchanged whenever the description they carry is empty after
   trimming or the type they carry is neither income nor expense; so every
   stored transaction has a non-blank description and a type in
   {income, expense}. *)
C21_DescriptionAndTypeValidated ==
    /\ DescriptionsAndTypesValid
    /\ [][DescriptionsAndTypesValid']_vars
    /\ [][resp'.op = "POST /transactions" =>
             \A b \in PostBodies :
                 (/\ \/ b.description # NULLTEXT /\ Blank(b.description)
                     \/ /\ b.transaction_type # NULLTEXT
                        /\ b.transaction_type \notin {"income", "expense"}
                  /\ PostTransaction(b.description, b.amount, b.category_id,
                                     b.transaction_type, CreatedAt))
                     => (resp'.status = 400 /\ store' = store)]_vars
    /\ [][resp'.op = "PUT /transactions" =>
             \A id \in RequestedIds, b \in PutBodies :
                 (/\ \/ b.description # NULLTEXT /\ Blank(b.description)
                     \/ /\ b.transaction_type # NULLTEXT
                        /\ b.transaction_type \notin {"income", "expense"}
                  /\ PutTransaction(id, b.description, b.amount, b.category_id,
                                    b.transaction_type, b.date, UpdatedAt))
                     => (resp'.status = 400 /\ store' = store)]_vars

-----------------------------------------------------------------------------
(* the body carries one field or more, each with a valid value *)
ValidFields(b) ==
    /\ b # NoFields
    /\ b.description # NULLTEXT => ~ Blank(b.description)
    /\ b.amount # UNDEFINED => (b.amount # NULL /\ b.amount > 0)
    /\ b.transaction_type # NULLTEXT => b.transaction_type \in {"income", "expense"}
    /\ b.date # UNDEFINED => b.date # NULL

(* transaction t with exactly the fields of body b replaced, and updated_at *)
WithFields(t, b) ==
    [id |-> t.id,
     description |-> IF b.description # NULLTEXT THEN TRIM(b.description)
                     ELSE t.description,
     amount |-> IF b.amount # UNDEFINED THEN b.amount ELSE t.amount,
     category_id |-> IF b.category_id # UNDEFINED THEN b.category_id
                     ELSE t.category_id,
     transaction_type |-> IF b.transaction_type # NULLTEXT THEN b.transaction_type
                          ELSE t.transaction_type,
     date |-> IF b.date # UNDEFINED THEN b.date ELSE t.date,
     updated_at |-> UpdatedAt]

(* C22: PUT /transactions/:id on an existing transaction accepts any non-empty
   subset of the fields description, amount, category_id, type and date with
   valid values, category_id = null included; it changes exactly the fields
   it carries and updated_at on that transaction and leaves its other fields
   and every other transaction unchanged. *)
C22_PartialUpdate ==
    [][resp'.op = "PUT /transactions" =>
          \A id \in RequestedIds, b \in PutBodies :
              (/\ ValidFields(b)
               /\ \E t \in transactions : t.id = id
               /\ PutTransaction(id, b.description, b.amount, b.category_id,
                                 b.transaction_type, b.date, UpdatedAt))
                  => /\ resp'.status = 200
                     /\ \E t \in transactions :
                            /\ t.id = id
                            /\ transactions' =
                                   (transactions \ {t}) \cup {WithFields(t, b)}
                     /\ <<categories', budget_periods', period_category_budgets'>>
                            = <<categories, budget_periods,
                                period_category_budgets>>]_vars

-----------------------------------------------------------------------------
(* the step is answered 404 and leaves the store as it is *)
NotFound == resp'.status = 404 /\ store' = store

(* C23: every request addressed to a transaction, category or period id that
   does not exist (update or delete of a transaction, update or delete of a
   category, read, update or delete of a period, read or update of the budgets
   of a period) is answered 404 and leaves the store unchanged.  The bodies
   are the valid ones. *)
C23_UnknownIdNotFound ==
    [][/\ \A b \in PutBodies :
              (/\ ValidFields(b) /\ b # [NoFields EXCEPT !.category_id = NULL]
               /\ PutTransaction(UnknownTransactionId, b.description, b.amount,
                                 b.category_id, b.transaction_type, b.date,
                                 UpdatedAt))
                  => NotFound
       /\ DeleteTransaction(UnknownTransactionId) => NotFound
       /\ \A name \in NewNames, budget_limit \in {NULL, 500} :
              PutCategory(UnknownCategoryId, name, budget_limit) => NotFound
       /\ \A hardDelete \in BOOLEAN :
              DeleteCategory(UnknownCategoryId, hardDelete) => NotFound
       /\ GetPeriod(UnknownPeriodId) => NotFound
       /\ \A is_active \in {0, 1} :
              PutPeriod(UnknownPeriodId, NULLTEXT, NULL, NULL, is_active)
                  => NotFound
       /\ DeletePeriod(UnknownPeriodId) => NotFound
       /\ GetPeriodBudgets(UnknownPeriodId) => NotFound
       /\ \A budgets \in BudgetLists \ {<<>>} :
              PutPeriodBudgets(UnknownPeriodId, budgets) => NotFound]_vars

-----------------------------------------------------------------------------
IsBreakdown == resp.op = "GET /charts/expense-breakdown"

(* the categories with an expense in the window of the last breakdown *)
WithExpenses ==
    {c \in categories :
        InWindow(c, "expense", resp.query.start_date, resp.query.end_date) # {}}

(* C24: GET /charts/expense-breakdown returns one row per category that has
   at least one expense transaction inside the optional date window, its total
   the sum of their amounts, the rows ordered by total descending; a category
   without an expense transaction in the window has no row. *)
C24_ExpenseBreakdown ==
    IsBreakdown =>
        /\ Len(resp.body) = Cardinality(WithExpenses)
        /\ \A c \in WithExpenses :
               \E i \in 1..Len(resp.body) :
                   /\ resp.body[i].name = c.name
                   /\ resp.body[i].total =
                          Total(InWindow(c, "expense", resp.query.start_date,
                                         resp.query.end_date))
        /\ \A i, j \in 1..Len(resp.body) :
               i < j => resp.body[i].total >= resp.body[j].total

(* a windowed breakdown of three stored categories lists two of them, the
   greater total first, and leaves out the one without an expense *)
C24_Witness ==
    /\ IsBreakdown
    /\ resp.query.end_date # NULL
    /\ Cardinality(categories) = 3
    /\ Len(resp.body) = 2
    /\ resp.body[1].total > resp.body[2].total

-----------------------------------------------------------------------------
(* the active periods whose inclusive range contains day today *)
ActiveOn(today) ==
    {p \in budget_periods :
        p.is_active = 1 /\ \E d \in p.start_date..p.end_date : d = today}

(* C25: GET /periods/current returns an active period whose inclusive
   [start_date, end_date] contains today; when several active periods contain
   today, the one with the latest start_date; when no active period contains
   today, also when inactive ones do, null. *)
C25_CurrentPeriod ==
    resp.op = "GET /periods/current" =>
        IF ActiveOn(resp.today) = {}
        THEN resp.body = {}
        ELSE \E p \in ActiveOn(resp.today) :
                 /\ resp.body = {p}
                 /\ \A other \in ActiveOn(resp.today) :
                        other.start_date <= p.start_date

(* two active periods contain today and the one that starts later is
   returned *)
C25_Witness ==
    /\ resp.op = "GET /periods/current"
    /\ \E p \in ActiveOn(resp.today), other \in ActiveOn(resp.today) :
           /\ other.start_date < p.start_date
           /\ resp.body = {p}

-----------------------------------------------------------------------------
(* C26: in every reachable state every transaction with a non-null
   category_id references a category row that is stored: a transaction is
   neither created on nor moved onto an id that no category has, and a
   category is not hard-deleted while a transaction references it. *)
C26_TransactionsReferenceCategories ==
    \A t \in transactions :
        t.category_id # NULL => \E c \in categories : c.id = t.category_id

-----------------------------------------------------------------------------
(* the rows of a summary without their limits and what derives from them *)
NamesSpentIncome(rows) ==
    {[name |-> r.name, spent |-> r.spent, income |-> r.income] : r \in rows}

(* C27: the two branches of GET /budget-summary agree on everything except
   the limit: for every store and every date window the request with a
   period_id and the same request without it return the same category names
   with the same spent and income; when the period has no override rows the
   two results are identical. *)
C27_BranchesAgree ==
    (IsSummary /\ resp.query.period_id # NULL) =>
        LET default == BudgetSummary([resp.query EXCEPT !.period_id = NULL])
        IN  /\ NamesSpentIncome(resp.body) = NamesSpentIncome(default)
            /\ (~ \E o \in period_category_budgets :
                      o.period_id = resp.query.period_id)
                   => resp.body = default

-----------------------------------------------------------------------------
(* C28: whenever PUT /periods/:id/budgets answers success for an entry of
   category c and limit L, with c an active category, a following
   GET /budget-summary of that period reports budget_limit = L for c, also for
   a category created after the period was created.  The category named
   "Income", which no summary lists, is left aside. *)
C28_SummaryReportsPutLimit ==
    [][(/\ resp.op = "PUT /periods/budgets"
        /\ resp.status = 200
        /\ resp'.op = "GET /budget-summary"
        /\ resp'.query.period_id = resp.id)
       => \A i \in 1..Len(resp.budgets) :
              \A c \in categories :
                  (/\ c.id = resp.budgets[i].category_id
                   /\ c.is_active = 1
                   /\ c.name # "Income")
                  => \E r \in resp'.body :
                         /\ r.name = c.name
                         /\ r.budget_limit = resp.budgets[i].budget_limit]_vars

-----------------------------------------------------------------------------
(* C29: when two POST /periods requests with overlapping ranges are handled
   concurrently, their overlap-check and insert callbacks interleaving in any
   order, at most one of them is stored as an active period: the insert
   callback of a request never stores a range that shares a day with an
   active period stored since its overlap check. *)
C29_ConcurrentPostsExclusive ==
    [][\A k \in Clients :
           (pending[k].pc = "insertPeriod" /\ pending'[k].pc = "copyBudgets")
               => \A p \in budget_periods :
                      p.is_active = 1
                          => ~ SharesDay(p, pending[k].start_date,
                                         pending[k].end_date)]_vars

-----------------------------------------------------------------------------
(* no fetch of the client is in flight *)
FetchesCompleted ==
    /\ client.mounted
    /\ client.fetchTransactions = {}
    /\ client.fetchBudgetSummary = {}

(* C30: when the date filter or the selected period changes several times in
   quick succession, each change starting new fetches without cancelling the
   earlier ones, then once all fetches in flight have completed the
   transactions and the budget summary held in App state are the responses to
   the most recent filter and period, whatever order the responses arrive
   in. *)
C30_LatestResponsesHeld ==
    FetchesCompleted =>
        /\ client.transactionsOf.query = TransactionsUrl(client.dateFilter)
        /\ client.budgetSummaryOf.query =
               BudgetSummaryUrl(client.dateFilter, client.currentPeriod)

====
